---- MODULE Spec2Model ----
(***************************************************************************)
(* Model of the document-template engine of the Renotech backend           *)
(* (internal/service/document_template.go): save-time validation of the    *)
(* fragment maps, the placeholder functions, value formatting, the         *)
(* document_templates collection and the render pipeline.                  *)
(*                                                                         *)
(* A Go string is a sequence of one-character strings (a few fixed page    *)
(* wrapper texts are single tokens); a payload value is a tagged record.   *)
(***************************************************************************)
EXTENDS Integers, Sequences, FiniteSets, TLC

----------------------------------------------------------------------------
(* Strings                                                                 *)

LB == <<"{", "{">>

RB == <<"}", "}">>

\* fmt.Sprintf("{{%s}}", key)
Placeholder(key) == LB \o key \o RB

\* the characters [a-zA-Z0-9_.] of the removal pattern that the model uses
WordChars == {"a", "b", "c", "x", "y", "."}

\* unicode.IsSpace, on the model's alphabet
SpaceChars == {" "}

\* byte value order of the model's alphabet (Go compares strings bytewise)
CharOrder == <<" ", ".", "a", "b", "c", "x", "y", "{", "}">>

CharCode(c) == CHOOSE i \in 1..Len(CharOrder) : CharOrder[i] = c

\* keys[i] < keys[j] on Go strings
RECURSIVE StrLess(_, _)
StrLess(s, t) ==
    IF t = <<>> THEN FALSE
    ELSE IF s = <<>> THEN TRUE
    ELSE IF Head(s) = Head(t) THEN StrLess(Tail(s), Tail(t))
    ELSE CharCode(Head(s)) < CharCode(Head(t))

\* strings.HasPrefix
HasPrefix(s, p) == Len(p) <= Len(s) /\ SubSeq(s, 1, Len(p)) = p

\* strings.HasSuffix
HasSuffix(s, p) == Len(p) <= Len(s) /\ SubSeq(s, Len(s) - Len(p) + 1, Len(s)) = p

\* strings.Contains
Contains(s, sub) == \E i \in 1..(Len(s) - Len(sub) + 1) : SubSeq(s, i, i + Len(sub) - 1) = sub

\* strings.ReplaceAll for a non-empty old: leftmost matches, not overlapping
RECURSIVE ReplaceAll(_, _, _)
ReplaceAll(s, old, new) ==
    IF Len(s) < Len(old) THEN s
    ELSE IF SubSeq(s, 1, Len(old)) = old
         THEN new \o ReplaceAll(SubSeq(s, Len(old) + 1, Len(s)), old, new)
         ELSE <<Head(s)>> \o ReplaceAll(Tail(s), old, new)

\* strings.TrimSpace
RECURSIVE TrimLeft(_)
TrimLeft(s) == IF s # <<>> /\ Head(s) \in SpaceChars THEN TrimLeft(Tail(s)) ELSE s

RECURSIVE TrimRight(_)
TrimRight(s) ==
    IF s # <<>> /\ s[Len(s)] \in SpaceChars THEN TrimRight(SubSeq(s, 1, Len(s) - 1)) ELSE s

TrimSpace(s) == TrimRight(TrimLeft(s))

\* strings.Count(key, ".")
documentTemplateGetNestingDepth(key) == Cardinality({i \in 1..Len(key) : key[i] = "."})

\* index of the last "." of key, 0 when there is none
LastDot(key) ==
    IF \E i \in 1..Len(key) : key[i] = "."
    THEN CHOOSE i \in 1..Len(key) : key[i] = "." /\ \A j \in (i + 1)..Len(key) : key[j] # "."
    ELSE 0

\* strings.Join(parts[:len(parts)-1], ".") of strings.Split(key, ".")
ParentKey(key) == SubSeq(key, 1, LastDot(key) - 1)

\* parts[len(parts)-1] of strings.Split(key, ".")
LastSegment(key) == SubSeq(key, LastDot(key) + 1, Len(key))

\* concatenation of a sequence of strings: strings.Join(results, "")
\* the strings joined last to first
RECURSIVE JoinAllReversed(_)
JoinAllReversed(ss) == IF ss = <<>> THEN <<>> ELSE JoinAllReversed(Tail(ss)) \o Head(ss)

RECURSIVE JoinAll(_)
JoinAll(ss) == IF ss = <<>> THEN <<>> ELSE Head(ss) \o JoinAll(Tail(ss))

\* does the sequence contain the element
InSeq(x, seq) == \E i \in 1..Len(seq) : seq[i] = x

----------------------------------------------------------------------------
(* Placeholder patterns                                                    *)

\* first index >= i of s that holds a character outside allowed, Len(s)+1 if none
RECURSIVE RunEnd(_, _, _)
RunEnd(s, i, allowed) ==
    IF i <= Len(s) /\ s[i] \in allowed THEN RunEnd(s, i + 1, allowed) ELSE i

\* the characters of s, as a set
CharsOf(s) == {s[i] : i \in 1..Len(s)}

\* Pattern \{\{(run)+\}\} anchored at i, the run being the characters of
\* allowed: the index of the last character of the match, 0 if no match.
MatchAt(s, i, allowed) ==
    IF i + 1 <= Len(s) /\ s[i] = "{" /\ s[i + 1] = "{"
    THEN LET j == RunEnd(s, i + 2, allowed)
         IN  IF j > i + 2 /\ j + 1 <= Len(s) /\ s[j] = "}" /\ s[j + 1] = "}"
             THEN j + 1
             ELSE 0
    ELSE 0

\* the class [^}] of the extraction pattern
NotCloseBrace(s) == CharsOf(s) \ {"}"}

\* regexp \{\{([^}]+)\}\} FindAllStringSubmatch: the captured groups, in order
RECURSIVE FindAllSubmatch(_, _)
FindAllSubmatch(s, i) ==
    IF i > Len(s) THEN <<>>
    ELSE LET e == MatchAt(s, i, NotCloseBrace(s))
         IN  IF e = 0 THEN FindAllSubmatch(s, i + 1)
             ELSE <<SubSeq(s, i + 2, e - 2)>> \o FindAllSubmatch(s, e + 1)

\* the loop of documentTemplateExtractVariables over the matches
RECURSIVE CollectVariables(_, _)
CollectVariables(matches, variables) ==
    IF matches = <<>> THEN variables
    ELSE LET variable == TrimSpace(Head(matches))
         IN  IF variable # <<>> /\ ~InSeq(variable, variables)
             THEN CollectVariables(Tail(matches), Append(variables, variable))
             ELSE CollectVariables(Tail(matches), variables)

documentTemplateExtractVariables(html) == CollectVariables(FindAllSubmatch(html, 1), <<>>)

\* regexp \{\{[a-zA-Z0-9_.]+\}\} ReplaceAllString(html, "")
RECURSIVE RemoveMatches(_, _)
RemoveMatches(s, i) ==
    IF i > Len(s) THEN <<>>
    ELSE LET e == MatchAt(s, i, WordChars)
         IN  IF e = 0 THEN <<s[i]>> \o RemoveMatches(s, i + 1)
             ELSE RemoveMatches(s, e + 1)

documentTemplateRemoveUnusedPlaceholders(html) == RemoveMatches(html, 1)

----------------------------------------------------------------------------
(* Payload values (bson.M decoded from the JSON request body) and their    *)
(* string forms.  A float64 is its sign, the digits of its integer part    *)
(* and its decimal digits.                                                 *)

NilValue == [t |-> "nil"]

String(s) == [t |-> "string", s |-> s]

Bool(b) == [t |-> "bool", b |-> b]

Float(neg, int, frac) == [t |-> "float", neg |-> neg, int |-> int, frac |-> frac]

\* []interface{}
Array(items) == [t |-> "array", items |-> items]

\* map[string]interface{}
Object(fields) == [t |-> "object", fields |-> fields]

DigitOrder == <<"0", "1", "2", "3", "4", "5", "6", "7", "8", "9">>

DigitValue(d) == (CHOOSE i \in 1..Len(DigitOrder) : DigitOrder[i] = d) - 1

Zeros(n) == [i \in 1..n |-> "0"]

\* the decimal number written by digits, plus one unit in its last place
RECURSIVE Increment(_)
Increment(digits) ==
    IF digits = <<>> THEN <<"1">>
    ELSE IF digits[Len(digits)] = "9"
         THEN Increment(SubSeq(digits, 1, Len(digits) - 1)) \o <<"0">>
         ELSE SubSeq(digits, 1, Len(digits) - 1) \o
              <<DigitOrder[DigitValue(digits[Len(digits)]) + 2]>>

\* fmt.Sprintf("%.*f", prec, f)
SprintfFixed(prec, f) ==
    LET padded == f.frac \o Zeros(IF prec > Len(f.frac) THEN prec - Len(f.frac) ELSE 0)
        kept == SubSeq(padded, 1, prec)
        roundUp == Len(padded) > prec /\ DigitValue(padded[prec + 1]) >= 5
        digits == IF roundUp THEN Increment(f.int \o kept) ELSE f.int \o kept
        whole == SubSeq(digits, 1, Len(digits) - prec)
        decimals == SubSeq(digits, Len(digits) - prec + 1, Len(digits))
    IN  (IF f.neg THEN <<"-">> ELSE <<>>) \o whole \o
        (IF prec > 0 THEN <<".">> \o decimals ELSE <<>>)

\* the precision of the first formatting in documentTemplateFormatFloat
FloatPrecision == 10

\* the least number of decimals documentTemplateFormatFloat keeps
MinDecimals == 2

\* the loop that finds the last non-zero digit: its index from 0, -1 if none
LastNonZero(decimals) ==
    IF \E i \in 1..Len(decimals) : decimals[i] # "0"
    THEN (CHOOSE i \in 1..Len(decimals) :
            decimals[i] # "0" /\ \A j \in (i + 1)..Len(decimals) : decimals[j] = "0") - 1
    ELSE -1

\* a decimal count that forgets the step from index to count
DecimalCountOffByOne(decimals) ==
    IF LastNonZero(decimals) < MinDecimals THEN MinDecimals ELSE LastNonZero(decimals)

\* decimalCount := lastNonZero + 1, at least 2
DecimalCount(decimals) ==
    IF LastNonZero(decimals) + 1 < MinDecimals THEN MinDecimals ELSE LastNonZero(decimals) + 1

documentTemplateFormatFloat(f) ==
    LET str == SprintfFixed(FloatPrecision, f)
        dots == {i \in 1..Len(str) : str[i] = "."}
    IN  IF Cardinality(dots) # 1 THEN SprintfFixed(MinDecimals, f)
        ELSE LET decimals == SubSeq(str, (CHOOSE i \in dots : TRUE) + 1, Len(str))
             IN  SprintfFixed(DecimalCount(decimals), f)

\* s without its trailing "0"s
RECURSIVE TrimZeros(_)
TrimZeros(s) ==
    IF s # <<>> /\ s[Len(s)] = "0" THEN TrimZeros(SubSeq(s, 1, Len(s) - 1)) ELSE s

\* the number of "0"s s begins with
RECURSIVE LeadingZeros(_)
LeadingZeros(s) == IF s # <<>> /\ Head(s) = "0" THEN 1 + LeadingZeros(Tail(s)) ELSE 0

\* a two-digit exponent
TwoDigits(n) == <<DigitOrder[(n \div 10) + 1], DigitOrder[(n % 10) + 1]>>

\* fmt %v of a float64 (strconv 'g', shortest digits) for a value below 1e6:
\* the exponent form is used under 1e-4
SprintFloat(f) ==
    LET sign == IF f.neg THEN <<"-">> ELSE <<>>
        decimals == TrimZeros(f.frac)
        z == LeadingZeros(decimals)
        mantissa == SubSeq(decimals, z + 1, Len(decimals))
    IN  IF decimals = <<>> THEN sign \o f.int
        ELSE IF f.int = <<"0">> /\ z >= 4
             THEN sign \o <<Head(mantissa)>> \o
                  (IF Len(mantissa) > 1 THEN <<".">> \o Tail(mantissa) ELSE <<>>) \o
                  <<"e", "-">> \o TwoDigits(z + 1)
             ELSE sign \o f.int \o <<".">> \o decimals

\* strings separated by one space
RECURSIVE JoinSpace(_)
JoinSpace(ss) ==
    IF ss = <<>> THEN <<>>
    ELSE IF Len(ss) = 1 THEN Head(ss)
    ELSE Head(ss) \o <<" ">> \o JoinSpace(Tail(ss))

\* the keys of a map in the order fmt prints them: sorted
RECURSIVE SortedKeys(_)
SortedKeys(S) ==
    IF S = {} THEN <<>>
    ELSE LET least == CHOOSE k \in S : \A other \in S \ {k} : StrLess(k, other)
         IN  <<least>> \o SortedKeys(S \ {least})

\* a float printed with two decimals or more, as a fragment field is
SprintVFormatted(value) ==
    CASE value.t = "string" -> value.s
      [] value.t = "float" -> documentTemplateFormatFloat(value)
      [] value.t = "bool" -> IF value.b THEN <<"t", "r", "u", "e">>
                                        ELSE <<"f", "a", "l", "s", "e">>
      [] OTHER -> <<>>

\* fmt.Sprintf("%v", value)
RECURSIVE SprintV(_)
SprintV(value) ==
    CASE value.t = "nil" -> <<"<", "n", "i", "l", ">">>
      [] value.t = "string" -> value.s
      [] value.t = "bool" -> IF value.b THEN <<"t", "r", "u", "e">>
                                        ELSE <<"f", "a", "l", "s", "e">>
      [] value.t = "float" -> SprintFloat(value)
      [] value.t = "array" ->
            <<"[">> \o JoinSpace([i \in 1..Len(value.items) |-> SprintV(value.items[i])])
            \o <<"]">>
      [] value.t = "object" ->
            LET keys == SortedKeys(DOMAIN value.fields)
            IN  <<"m", "a", "p", "[">> \o
                JoinSpace([i \in 1..Len(keys) |->
                              keys[i] \o <<":">> \o SprintV(value.fields[keys[i]])])
                \o <<"]">>

documentTemplateConvertToString(value) ==
    CASE value.t = "nil" -> <<>>
      [] value.t = "string" -> value.s
      [] value.t = "float" -> documentTemplateFormatFloat(value)
      [] OTHER -> SprintV(value)

\* documentTemplateReplaceVariables, the range visiting the keys in order
RECURSIVE ReplaceVariablesIn(_, _, _)
ReplaceVariablesIn(order, html, data) ==
    IF order = <<>> THEN html
    ELSE ReplaceVariablesIn(Tail(order),
                            ReplaceAll(html, Placeholder(Head(order)), SprintV(data[Head(order)])),
                            data)

----------------------------------------------------------------------------
(* Errors (utils.SystemError): the code, the rule that failed, the key and *)
(* the variable the message names                                          *)

NoResult == [code |-> "none", rule |-> "", key |-> <<>>, variable |-> <<>>]

Nil == [code |-> "ok", rule |-> "", key |-> <<>>, variable |-> <<>>]

SystemError(code, rule, key, variable) ==
    [code |-> code, rule |-> rule, key |-> key, variable |-> variable]

\* the orders in which a range over a Go map with key set S can visit it
Orders(S) ==
    {o \in [1..Cardinality(S) -> S] : \A i, j \in 1..Cardinality(S) : o[i] = o[j] => i = j}

----------------------------------------------------------------------------
(* Save-time validation of the fragment maps                               *)

\* a validator that returns as soon as the first visited key is in order
ValidateVariableHtmlFirstOnly(order, variableHtml) ==
    IF order = <<>> THEN Nil
    ELSE IF ~InSeq(Head(order), documentTemplateExtractVariables(variableHtml[Head(order)]))
         THEN SystemError("VALIDATION", "variableHtml", Head(order), Head(order))
         ELSE Nil

\* documentTemplateValidateVariableHtml, the range visiting the keys in order
RECURSIVE ValidateVariableHtmlIn(_, _)
ValidateVariableHtmlIn(order, variableHtml) ==
    IF order = <<>> THEN Nil
    ELSE LET key == Head(order)
             extractedVars == documentTemplateExtractVariables(variableHtml[key])
         IN  IF ~InSeq(key, extractedVars)
             THEN SystemError("VALIDATION", "variableHtml", key, key)
             ELSE ValidateVariableHtmlIn(Tail(order), variableHtml)

\* the order the comments of the sort announce: deepest first
SortLessDeepestFirst(ki, kj) ==
    IF documentTemplateGetNestingDepth(ki) = documentTemplateGetNestingDepth(kj)
    THEN StrLess(ki, kj)
    ELSE documentTemplateGetNestingDepth(ki) > documentTemplateGetNestingDepth(kj)

\* the less function of documentTemplateSortKeysByDepth
SortLess(ki, kj) ==
    LET depthI == documentTemplateGetNestingDepth(ki)
        depthJ == documentTemplateGetNestingDepth(kj)
    IN  IF depthI = depthJ THEN StrLess(ki, kj) ELSE depthI < depthJ

\* sort.Slice: insertion of key into a sequence sorted by SortLess
RECURSIVE SortInsert(_, _)
SortInsert(key, sorted) ==
    IF sorted = <<>> THEN <<key>>
    ELSE IF SortLess(key, Head(sorted)) THEN <<key>> \o sorted
    ELSE <<Head(sorted)>> \o SortInsert(key, Tail(sorted))

RECURSIVE SortSet(_)
SortSet(S) ==
    IF S = {} THEN <<>>
    ELSE LET key == CHOOSE k \in S : TRUE IN SortInsert(key, SortSet(S \ {key}))

documentTemplateSortKeysByDepth(embeddedHtml) == SortSet(DOMAIN embeddedHtml)

\* a prefix loop that looks at the first extracted variable only
FirstForeignVariableHeadOnly(extractedVars, key) ==
    IF extractedVars = <<>> THEN <<>>
    ELSE IF ~HasPrefix(Head(extractedVars), key \o <<".">>) /\ Head(extractedVars) # key
         THEN Head(extractedVars)
         ELSE <<>>

\* the prefix loop: the first extracted variable that is neither key nor key.*
RECURSIVE FirstForeignVariable(_, _)
FirstForeignVariable(extractedVars, key) ==
    IF extractedVars = <<>> THEN <<>>
    ELSE IF ~HasPrefix(Head(extractedVars), key \o <<".">>) /\ Head(extractedVars) # key
         THEN Head(extractedVars)
         ELSE FirstForeignVariable(Tail(extractedVars), key)

\* the body of the loop of documentTemplateValidateEmbeddedHtml for one key
ValidateEmbeddedKey(key, embeddedHtml) ==
    LET extractedVars == documentTemplateExtractVariables(embeddedHtml[key])
        foreign == FirstForeignVariable(extractedVars, key)
        parent == ParentKey(key)
    IN  IF foreign # <<>> THEN SystemError("VALIDATION", "prefix", key, foreign)
        ELSE IF Contains(key, <<".">>)
        THEN IF parent \notin DOMAIN embeddedHtml
             THEN SystemError("VALIDATION", "parent", key, parent)
             ELSE IF ~Contains(embeddedHtml[parent], Placeholder(key))
                  THEN SystemError("VALIDATION", "placeholder", key, parent)
                  ELSE Nil
        ELSE Nil

RECURSIVE ValidateEmbeddedLoop(_, _)
ValidateEmbeddedLoop(sortedKeys, embeddedHtml) ==
    IF sortedKeys = <<>> THEN Nil
    ELSE LET err == ValidateEmbeddedKey(Head(sortedKeys), embeddedHtml)
         IN  IF err # Nil THEN err ELSE ValidateEmbeddedLoop(Tail(sortedKeys), embeddedHtml)

documentTemplateValidateEmbeddedHtml(embeddedHtml) ==
    IF Cardinality(DOMAIN embeddedHtml) = 0 THEN Nil
    ELSE ValidateEmbeddedLoop(documentTemplateSortKeysByDepth(embeddedHtml), embeddedHtml)

----------------------------------------------------------------------------
(* The fragment expander and the render pipeline.  A range over a Go map   *)
(* visits the keys in any order, so an operator yields the set of the      *)
(* strings the code can produce.                                           *)

\* processedData[key] = value
Put(d, key, value) == [k \in DOMAIN d \cup {key} |-> IF k = key THEN value ELSE d[k]]

\* documentTemplateGetValueByPath: only the last segment of path is looked
\* up, in data itself; a missing key and a null both give nil
documentTemplateGetValueByPath(data, path) ==
    IF LastSegment(path) \in DOMAIN data THEN data[LastSegment(path)] ELSE NilValue

\* documentTemplateReplaceVariables under every order of the range
ReplaceVariablesSet(html, data) ==
    {ReplaceVariablesIn(order, html, data) : order \in Orders(DOMAIN data)}

\* the concatenations in the opposite order
RECURSIVE ConcatSetsReversed(_)
ConcatSetsReversed(sets) ==
    IF sets = <<>> THEN {<<>>}
    ELSE {t \o h : h \in Head(sets), t \in ConcatSetsReversed(Tail(sets))}

\* the concatenations of one string out of each set of a sequence of sets
RECURSIVE ConcatSets(_)
ConcatSets(sets) ==
    IF sets = <<>> THEN {<<>>}
    ELSE {h \o t : h \in Head(sets), t \in ConcatSets(Tail(sets))}

RECURSIVE ReplaceNestedVariablesFold(_, _, _, _)
RECURSIVE ProcessNestedEmbeddedFold(_, _, _, _, _)
RECURSIVE ProcessEmbeddedHtmlSet(_, _, _, _)

\* documentTemplateReplaceNestedVariables, the range visiting the fields in order
ReplaceNestedVariablesFold(order, html, parentKey, data) ==
    IF order = <<>> THEN {html}
    ELSE LET key == Head(order)
             value == data[key]
             fullKey == parentKey \o <<".">> \o key
             step ==
                CASE value.t = "object" ->
                        UNION {ReplaceNestedVariablesFold(o, html, fullKey, value.fields) :
                                  o \in Orders(DOMAIN value.fields)}
                  [] value.t = "array" -> {html}
                  [] OTHER -> {ReplaceAll(html, Placeholder(fullKey),
                                          documentTemplateConvertToString(value))}
         IN  UNION {ReplaceNestedVariablesFold(Tail(order), h, parentKey, data) : h \in step}

documentTemplateReplaceNestedVariables(html, parentKey, data) ==
    UNION {ReplaceNestedVariablesFold(order, html, parentKey, data) :
              order \in Orders(DOMAIN data)}

\* a parent test that every other fragment of the map passes
IsOtherFragment(nestedKey, parentKey) == nestedKey # parentKey

\* "this nested key belongs to the current parent"
BelongsToParent(nestedKey, parentKey) == HasPrefix(nestedKey, parentKey \o <<".">>)

\* documentTemplateProcessNestedEmbedded, the range visiting the fragments in order
ProcessNestedEmbeddedFold(order, html, parentKey, itemData, embeddedHtmlMap) ==
    IF order = <<>> THEN {html}
    ELSE LET nestedKey == Head(order)
             placeholder == Placeholder(nestedKey)
             fieldName == LastSegment(nestedKey)
             step ==
                IF BelongsToParent(nestedKey, parentKey) /\ Contains(html, placeholder)
                THEN IF fieldName \in DOMAIN itemData
                     THEN {ReplaceAll(html, placeholder, processedNested) :
                              processedNested \in
                                 ProcessEmbeddedHtmlSet(nestedKey, embeddedHtmlMap[nestedKey],
                                                        (fieldName :> itemData[fieldName]),
                                                        embeddedHtmlMap)}
                     ELSE {ReplaceAll(html, placeholder, <<>>)}
                ELSE {html}
         IN  UNION {ProcessNestedEmbeddedFold(Tail(order), h, parentKey, itemData,
                                              embeddedHtmlMap) : h \in step}

\* every placeholder of a fragment below parentKey dropped, none expanded
RECURSIVE DropNested(_, _, _)
DropNested(order, html, parentKey) ==
    IF order = <<>> THEN html
    ELSE DropNested(Tail(order),
                    IF HasPrefix(Head(order), parentKey \o <<".">>)
                    THEN ReplaceAll(html, Placeholder(Head(order)), <<>>)
                    ELSE html,
                    parentKey)

ProcessNestedEmbeddedDropped(html, parentKey, itemData, embeddedHtmlMap) ==
    {DropNested(SortSet(DOMAIN embeddedHtmlMap), html, parentKey)}

documentTemplateProcessNestedEmbedded(html, parentKey, itemData, embeddedHtmlMap) ==
    UNION {ProcessNestedEmbeddedFold(order, html, parentKey, itemData, embeddedHtmlMap) :
              order \in Orders(DOMAIN embeddedHtmlMap)}

\* the HTML of one object: nested fragments first, then its simple fields
ItemHtml(key, embeddedHtml, itemMap, embeddedHtmlMap) ==
    UNION {documentTemplateReplaceNestedVariables(h, key, itemMap) :
              h \in documentTemplateProcessNestedEmbedded(embeddedHtml, key, itemMap,
                                                          embeddedHtmlMap)}

\* a scalar expanded as if it were an array of one element
ProcessEmbeddedHtmlScalarAsElement(key, embeddedHtml, data, embeddedHtmlMap) ==
    LET value == documentTemplateGetValueByPath(data, key)
    IN  IF value.t \in {"string", "float", "bool"}
        THEN {ReplaceAll(embeddedHtml, Placeholder(key), SprintV(value))}
        ELSE ProcessEmbeddedHtmlSet(key, embeddedHtml, data, embeddedHtmlMap)

\* the snippet returned as it is for every value but nil
ProcessEmbeddedHtmlKeepsSnippet(key, embeddedHtml, data, embeddedHtmlMap) ==
    IF documentTemplateGetValueByPath(data, key).t = "nil" THEN {<<>>} ELSE {embeddedHtml}

\* documentTemplateProcessEmbeddedHtml
ProcessEmbeddedHtmlSet(key, embeddedHtml, data, embeddedHtmlMap) ==
    LET value == documentTemplateGetValueByPath(data, key)
    IN  CASE value.t = "nil" -> {<<>>}
          [] value.t = "array" ->
                IF Len(value.items) = 0 THEN {<<>>}
                ELSE IF value.items[1].t = "object"
                THEN ConcatSets([i \in 1..Len(value.items) |->
                        IF value.items[i].t = "object"
                        THEN ItemHtml(key, embeddedHtml, value.items[i].fields, embeddedHtmlMap)
                        ELSE {<<>>}])
                ELSE {JoinAll([i \in 1..Len(value.items) |->
                        ReplaceAll(embeddedHtml, Placeholder(key), SprintV(value.items[i]))])}
          [] value.t = "object" -> ItemHtml(key, embeddedHtml, value.fields, embeddedHtmlMap)
          [] OTHER -> {SprintV(value)}

documentTemplateProcessEmbeddedHtml(key, embeddedHtml, data, embeddedHtmlMap) ==
    ProcessEmbeddedHtmlSet(key, embeddedHtml, data, embeddedHtmlMap)

\* a Phase 1 that writes the result of every fragment back, nested ones too
RECURSIVE EmbeddedPhaseAllKeys(_, _, _, _)
EmbeddedPhaseAllKeys(sortedKeys, processedData, embeddedKeys, template) ==
    IF sortedKeys = <<>> THEN {[data |-> processedData, keys |-> embeddedKeys]}
    ELSE LET key == Head(sortedKeys)
             results == documentTemplateProcessEmbeddedHtml(
                            key, template.embeddedHtml[key], processedData,
                            template.embeddedHtml)
         IN  UNION {EmbeddedPhaseAllKeys(Tail(sortedKeys),
                                         Put(processedData, key, String(r)),
                                         embeddedKeys \cup {key}, template) : r \in results}

\* Phase 1 of documentTemplateProcessHTML: the loop over the sorted keys;
\* yields the possible pairs of processedData and embeddedKeys
RECURSIVE EmbeddedPhase(_, _, _, _)
EmbeddedPhase(sortedKeys, processedData, embeddedKeys, template) ==
    IF sortedKeys = <<>> THEN {[data |-> processedData, keys |-> embeddedKeys]}
    ELSE LET key == Head(sortedKeys)
             results == documentTemplateProcessEmbeddedHtml(
                            key, template.embeddedHtml[key], processedData,
                            template.embeddedHtml)
         IN  IF ~Contains(key, <<".">>)
             THEN UNION {EmbeddedPhase(Tail(sortedKeys), Put(processedData, key, String(r)),
                                       embeddedKeys \cup {key}, template) : r \in results}
             ELSE EmbeddedPhase(Tail(sortedKeys), processedData, embeddedKeys, template)

\* a Phase 2 that wraps the value whether or not the snippet names the key
RECURSIVE VariablePhaseAlwaysWraps(_, _, _)
VariablePhaseAlwaysWraps(names, processedData, template) ==
    IF names = <<>> THEN {processedData}
    ELSE LET varName == Head(names)
             htmlTemplate == template.variableHtml[varName]
             step ==
                IF varName \in DOMAIN processedData /\ processedData[varName].t # "nil"
                THEN {Put(processedData, varName, String(rendered)) :
                        rendered \in ReplaceVariablesSet(
                            ReplaceAll(htmlTemplate, Placeholder(varName),
                                       documentTemplateConvertToString(processedData[varName])),
                            processedData)}
                ELSE {processedData}
         IN  UNION {VariablePhaseAlwaysWraps(Tail(names), d, template) : d \in step}

\* Phase 2: one loop over variable names, in the order given
RECURSIVE VariablePhase(_, _, _)
VariablePhase(names, processedData, template) ==
    IF names = <<>> THEN {processedData}
    ELSE LET varName == Head(names)
             htmlTemplate == template.variableHtml[varName]
             placeholder == Placeholder(varName)
             step ==
                IF varName \in DOMAIN processedData /\ processedData[varName].t # "nil"
                   /\ Contains(htmlTemplate, placeholder)
                THEN {Put(processedData, varName, String(rendered)) :
                        rendered \in ReplaceVariablesSet(
                            ReplaceAll(htmlTemplate, placeholder,
                                       documentTemplateConvertToString(processedData[varName])),
                            processedData)}
                ELSE {processedData}
         IN  UNION {VariablePhase(Tail(names), d, template) : d \in step}

\* the page documentTemplateWrapForPreview puts around the content
PreviewHead == <<"<!DOCTYPE html>...<div class=a4-page>">>

PreviewTail == <<"</div></div></body></html>">>

documentTemplateWrapForPreview(content) == PreviewHead \o content \o PreviewTail

\* a render that works on the map of the caller itself
CallerDataShared(data, processedData) == processedData

\* what the map of the caller holds when documentTemplateProcessHTML returns
\* with processedData as its working payload: processedData is a map of its
\* own, filled from data key by key, and every assignment of the phases goes
\* to it
CallerData(data, processedData) == [k \in DOMAIN data |-> data[k]]

\* a render that removes the placeholders before the main substitution
ProcessHTMLStripsFirst(template, data, forPreview) ==
    LET afterPhase1 ==
            IF Cardinality(DOMAIN template.embeddedHtml) > 0
            THEN EmbeddedPhase(documentTemplateSortKeysByDepth(template.embeddedHtml),
                               data, {}, template)
            ELSE {[data |-> data, keys |-> {}]}
        Phase2(p1) ==
            IF Cardinality(DOMAIN template.variableHtml) > 0
            THEN UNION {VariablePhase(inEmbedded \o notInEmbedded, p1.data, template) :
                    inEmbedded \in Orders(DOMAIN template.variableHtml \cap p1.keys),
                    notInEmbedded \in Orders(DOMAIN template.variableHtml \ p1.keys)}
            ELSE {p1.data}
        Finish(html) == IF forPreview THEN documentTemplateWrapForPreview(html) ELSE html
    IN  UNION {UNION {{[ afterEmbedded |-> p1.data, afterVariable |-> p2,
                          callerData |-> CallerData(data, p2),
                          callerTemplate |-> template,
                          html |-> Finish(html), err |-> Nil ] :
                          html \in ReplaceVariablesSet(
                              documentTemplateRemoveUnusedPlaceholders(template.html), p2)} :
                      p2 \in Phase2(p1)} :
                  p1 \in afterPhase1}

\* documentTemplateProcessHTML: the runs the code can make, each with the
\* payload after Phase 1 and after Phase 2, the payload and the template of
\* the caller at the return, the HTML and the error returned
documentTemplateProcessHTML(template, data, forPreview) ==
    LET afterPhase1 ==
            IF Cardinality(DOMAIN template.embeddedHtml) > 0
            THEN EmbeddedPhase(documentTemplateSortKeysByDepth(template.embeddedHtml),
                               data, {}, template)
            ELSE {[data |-> data, keys |-> {}]}
        Phase2(p1) ==
            IF Cardinality(DOMAIN template.variableHtml) > 0
            THEN UNION {VariablePhase(inEmbedded \o notInEmbedded, p1.data, template) :
                    inEmbedded \in Orders(DOMAIN template.variableHtml \cap p1.keys),
                    notInEmbedded \in Orders(DOMAIN template.variableHtml \ p1.keys)}
            ELSE {p1.data}
        Finish(html) ==
            LET cleaned == documentTemplateRemoveUnusedPlaceholders(html)
            IN  IF forPreview THEN documentTemplateWrapForPreview(cleaned) ELSE cleaned
    IN  UNION {UNION {{[ afterEmbedded |-> p1.data, afterVariable |-> p2,
                          callerData |-> CallerData(data, p2),
                          callerTemplate |-> template,
                          html |-> Finish(html), err |-> Nil ] :
                          html \in ReplaceVariablesSet(template.html, p2)} :
                      p2 \in Phase2(p1)} :
                  p1 \in afterPhase1}

----------------------------------------------------------------------------
(* Inputs of the validation specification                                  *)

\* most entries a fragment map of the model holds
MaxFragments == 2

FragmentKeys == {<<"a">>, <<"b">>, <<"a", ".", "b">>}

FragmentPieces ==
    { <<>>,
      Placeholder(<<"a">>),
      Placeholder(<<" ", "a", " ">>),
      Placeholder(<<"b">>),
      Placeholder(<<"a", ".", "b">>),
      <<"{">> }

\* fragment HTML: two pieces, one after the other
FragmentHtmls == {p \o q : p \in FragmentPieces, q \in FragmentPieces}

FragmentMaps ==
    UNION {[ks -> FragmentHtmls] : ks \in {s \in SUBSET FragmentKeys : Cardinality(s) <= MaxFragments}}

----------------------------------------------------------------------------
VARIABLES
    fragments,        \* SpecValidate: the map handed to the validators
    variableResult,   \* error of documentTemplateValidateVariableHtml(fragments)
    embeddedResult    \* error of documentTemplateValidateEmbeddedHtml(fragments)

validateVars == <<fragments, variableResult, embeddedResult>>

VARIABLES
    templates,        \* SpecStore: the document_templates collection, _id = index
    written,          \* the _ids that DocumentTemplateCreate/Update have written
    ret               \* what the last handler call returned

storeVars == <<templates, written, ret>>

VARIABLES
    inValue,          \* SpecFormat: the value handed to documentTemplateConvertToString
    converted         \* its result

formatVars == <<inValue, converted>>

VARIABLES
    inHtml,           \* SpecSubstitute: the HTML handed to documentTemplateReplaceVariables
    inData,           \* and the payload
    replaced,         \* result of documentTemplateReplaceVariables(inHtml, inData)
    removed,          \* result of documentTemplateRemoveUnusedPlaceholders(replaced)
    removedAgain      \* result of documentTemplateRemoveUnusedPlaceholders(removed)

substituteVars == <<inHtml, inData, replaced, removed, removedAgain>>

VARIABLES
    call,             \* SpecRender: the arguments of the last preview/generate call
    phases,           \* the working payload after Phase 1 and after Phase 2 of that call
    response          \* what the call returned

renderVars == <<call, phases, response>>

VARIABLES
    expandKey,        \* SpecExpand: the fragment key handed to the expander
    expandMap,        \* the embeddedHtml map; the snippet is expandMap[expandKey]
    expandScope,      \* the data the key is looked up in
    expanded          \* result of documentTemplateProcessEmbeddedHtml

expandVars == <<expandKey, expandMap, expandScope, expanded>>

VARIABLES
    quotations,       \* SpecQuotation: the quotation_templates collection, _id = index
    quoteCall,        \* the last call of a quotation handler
    quoteResponse     \* what it returned

quotationVars == <<quotations, quoteCall, quoteResponse>>

VARIABLES
    job,              \* SpecConvert: the generate call in progress and its position
    browser           \* the headless-browser contexts created and not yet cancelled

convertVars == <<job, browser>>

VARIABLES
    stack             \* SpecRecurse: the calls of the expander in progress, innermost last

recurseVars == <<stack>>

VARIABLES
    calls             \* SpecRace: the create and update calls in progress and their positions

raceVars == <<calls>>

vars == <<validateVars, storeVars, formatVars, substituteVars, renderVars, expandVars,
          quotationVars, convertVars, recurseVars, raceVars>>

\* a string result not yet computed, and a computed one
Pending == [done |-> FALSE, s |-> <<>>]

Done(s) == [done |-> TRUE, s |-> s]

\* the variables of the other specifications, at rest
StoreIdle == templates = <<>> /\ written = {} /\ ret = [op |-> "none", id |-> 0, err |-> NoResult]

ValidateIdle == fragments = <<>> /\ variableResult = NoResult /\ embeddedResult = NoResult

FormatIdle == inValue = NilValue /\ converted = Pending

SubstituteIdle ==
    /\ inHtml = <<>>
    /\ inData = <<>>
    /\ replaced = Pending
    /\ removed = Pending
    /\ removedAgain = Pending

\* no call made yet
NoCall == [op |-> "none", type |-> <<>>, data |-> <<>>, company |-> "nil"]

NoPhases ==
    [ run |-> FALSE, template |-> <<>>, afterEmbedded |-> <<>>, afterVariable |-> <<>>,
      callerData |-> <<>>, callerTemplate |-> <<>> ]

NoResponse == [html |-> <<>>, pdf |-> <<>>, filename |-> <<>>, err |-> NoResult]

RenderIdle == call = NoCall /\ phases = NoPhases /\ response = NoResponse

ExpandIdle ==
    /\ expandKey = <<>>
    /\ expandMap = <<>>
    /\ expandScope = <<>>
    /\ expanded = Pending

NoQuoteCall == [op |-> "none", id |-> 0, input |-> <<>>]

QuotationIdle == quotations = <<>> /\ quoteCall = NoQuoteCall /\ quoteResponse = NoResponse

\* no generate call made yet; state is the position of the call: "converting"
\* inside chromedp.Run, "converted" once it has returned, "returned" at the end
NoJob ==
    [ handler |-> "none", state |-> "idle", html |-> <<>>, fileName |-> <<>>,
      converted |-> FALSE, pdf |-> <<>>, err |-> NoResult ]

ConvertIdle == job = NoJob /\ browser = 0

RecurseIdle == stack = <<>>

\* most calls of the handlers in progress at once
MaxCalls == 2

NoRaceCall == [op |-> "none", id |-> 0, input |-> <<>>, pc |-> "idle", err |-> NoResult]

RaceIdle == calls = [c \in 1..MaxCalls |-> NoRaceCall]

----------------------------------------------------------------------------
(* SpecValidate: the two validators applied to one fragment map            *)

InitValidate ==
    /\ fragments \in FragmentMaps
    /\ variableResult = NoResult
    /\ embeddedResult = NoResult
    /\ StoreIdle
    /\ FormatIdle
    /\ SubstituteIdle
    /\ RenderIdle
    /\ ExpandIdle
    /\ QuotationIdle
    /\ ConvertIdle
    /\ RecurseIdle
    /\ RaceIdle

ValidateVariableHtml ==
    /\ variableResult = NoResult
    /\ \E order \in Orders(DOMAIN fragments) :
           variableResult' = ValidateVariableHtmlIn(order, fragments)
    /\ UNCHANGED <<fragments, embeddedResult, storeVars, formatVars, substituteVars, renderVars, expandVars, quotationVars, convertVars, recurseVars, raceVars>>

ValidateEmbeddedHtml ==
    /\ embeddedResult = NoResult
    /\ embeddedResult' = documentTemplateValidateEmbeddedHtml(fragments)
    /\ UNCHANGED <<fragments, variableResult, storeVars, formatVars, substituteVars, renderVars, expandVars, quotationVars, convertVars, recurseVars, raceVars>>

NextValidate == ValidateVariableHtml \/ ValidateEmbeddedHtml

SpecValidate == InitValidate /\ [][NextValidate]_vars

----------------------------------------------------------------------------
(* The document_templates collection and its handlers                      *)

\* most records the collection of the model holds
MaxTemplates == 2

TemplateNames == {<<"n">>, <<"m">>}

TemplateTypes == {<<"t">>}

\* *primitive.ObjectID of a company: nil (global) or a tenant
Companies == {"nil", "c1"}

ValidFragments ==
    [ variableHtml |-> (<<"a">> :> Placeholder(<<"a">>)),
      embeddedHtml |-> (<<"a">> :> Placeholder(<<"a", ".", "b">>)) @@
                       (<<"a", ".", "b">> :> Placeholder(<<"a", ".", "b">>)) ]

BadVariableFragments ==
    [ variableHtml |-> (<<"a">> :> <<"x">>) @@ (<<"b">> :> Placeholder(<<"b">>)),
      embeddedHtml |-> (<<"a">> :> Placeholder(<<"a">>)) ]

BadEmbeddedFragments ==
    [ variableHtml |-> (<<"a">> :> Placeholder(<<"a">>)),
      embeddedHtml |-> (<<"a", ".", "b">> :> Placeholder(<<"a", ".", "b">>)) ]

RequestFragments == {ValidFragments, BadVariableFragments, BadEmbeddedFragments}

\* model.DocumentTemplateCreateRequest / model.DocumentTemplateUpdateRequest
Request(name, html, type, fileName, company, frag) ==
    [ name |-> name, html |-> html, type |-> type, defaultFileName |-> fileName,
      company |-> company, variableHtml |-> frag.variableHtml,
      embeddedHtml |-> frag.embeddedHtml ]

\* requests with every required field filled in and fragments in order
FilledRequests ==
    {Request(n, <<"h">>, t, <<"f">>, c, ValidFragments) :
        n \in TemplateNames, t \in TemplateTypes, c \in Companies}

\* requests whose fragments break a rule
BadFragmentRequests ==
    {Request(<<"n">>, <<"h">>, <<"t">>, <<"f">>, "nil", f) :
        f \in {BadVariableFragments, BadEmbeddedFragments}}

\* requests with one required field blank
BlankRequests ==
    { Request(<<" ">>, <<"h">>, <<"t">>, <<"f">>, "nil", ValidFragments),
      Request(<<"n">>, <<>>, <<"t">>, <<"f">>, "nil", ValidFragments),
      Request(<<"n">>, <<"h">>, <<" ">>, <<"f">>, "nil", ValidFragments),
      Request(<<"n">>, <<"h">>, <<"t">>, <<>>, "nil", ValidFragments) }

Requests == FilledRequests \cup BadFragmentRequests \cup BlankRequests

\* database.DocumentTemplate
Template(input, isDefault) ==
    [ name |-> input.name, html |-> input.html, variableHtml |-> input.variableHtml,
      embeddedHtml |-> input.embeddedHtml, defaultFileName |-> input.defaultFileName,
      isDefault |-> isDefault, type |-> input.type, company |-> input.company,
      isDeleted |-> FALSE ]

\* global default templates put into the collection outside these handlers
SeedTemplates ==
    {Template(Request(<<"n">>, <<"h">>, t, <<"f">>, "nil", f), TRUE) :
        t \in {<<"t">>}, f \in {ValidFragments, BadVariableFragments}}

\* the _ids a request can name: those of the collection and one beyond
TemplateIds == 1..(MaxTemplates + 1)

\* the filter {_id} alone
FoundWithDeleted(store, id) == id \in 1..Len(store)

\* collection.FindOne / UpdateOne filter {_id, isDeleted: false}
Found(store, id) == id \in 1..Len(store) /\ ~store[id].isDeleted

\* documentTemplateValidateNameUniqueness: CountDocuments(filter) > 0
documentTemplateValidateNameUniqueness(store, excludeID, name, companyID) ==
    IF \E i \in 1..Len(store) :
            /\ store[i].name = name
            /\ ~store[i].isDeleted
            /\ store[i].company = companyID
            /\ (excludeID # 0 => i # excludeID)
    THEN SystemError("VALIDATION", "name", <<>>, <<>>)
    ELSE Nil

\* documentTemplateValidateTypeUniqueness
documentTemplateValidateTypeUniqueness(store, excludeID, templateType, companyID) ==
    IF \E i \in 1..Len(store) :
            /\ store[i].type = templateType
            /\ ~store[i].isDeleted
            /\ store[i].company = companyID
            /\ (excludeID # 0 => i # excludeID)
    THEN SystemError("VALIDATION", "type", <<>>, <<>>)
    ELSE Nil

\* the required-field checks that open both validations
RequiredFields(input) ==
    IF TrimSpace(input.name) = <<>> THEN SystemError("VALIDATION", "required", <<"name">>, <<>>)
    ELSE IF TrimSpace(input.html) = <<>> THEN SystemError("VALIDATION", "required", <<"html">>, <<>>)
    ELSE IF TrimSpace(input.type) = <<>> THEN SystemError("VALIDATION", "required", <<"type">>, <<>>)
    ELSE IF TrimSpace(input.defaultFileName) = <<>>
         THEN SystemError("VALIDATION", "required", <<"defaultFileName">>, <<>>)
    ELSE Nil

\* documentTemplateValidateVariableHtml then documentTemplateValidateEmbeddedHtml
FragmentChecks(variableHtml, embeddedHtml, order) ==
    LET err == ValidateVariableHtmlIn(order, variableHtml)
    IN  IF err # Nil THEN err ELSE documentTemplateValidateEmbeddedHtml(embeddedHtml)

\* the checks of a validation that read the request alone, evaluated once
\* for each request and each order of the range over its variableHtml
RequestErrors ==
    [input \in Requests |->
        [ required |-> RequiredFields(input),
          fragments |-> [order \in Orders(DOMAIN input.variableHtml) |->
                            FragmentChecks(input.variableHtml, input.embeddedHtml, order)] ]]

\* a create validation that leaves out the two fragment validations
ValidateCreateWithoutFragments(store, input, order) ==
    IF RequestErrors[input].required # Nil THEN RequestErrors[input].required
    ELSE IF documentTemplateValidateNameUniqueness(store, 0, input.name, input.company) # Nil
         THEN documentTemplateValidateNameUniqueness(store, 0, input.name, input.company)
    ELSE documentTemplateValidateTypeUniqueness(store, 0, input.type, input.company)

documentTemplateValidateCreate(store, input, order) ==
    IF RequestErrors[input].required # Nil THEN RequestErrors[input].required
    ELSE IF documentTemplateValidateNameUniqueness(store, 0, input.name, input.company) # Nil
         THEN documentTemplateValidateNameUniqueness(store, 0, input.name, input.company)
    ELSE IF documentTemplateValidateTypeUniqueness(store, 0, input.type, input.company) # Nil
         THEN documentTemplateValidateTypeUniqueness(store, 0, input.type, input.company)
    ELSE RequestErrors[input].fragments[order]

documentTemplateValidateUpdate(store, templateID, input, order) ==
    IF RequestErrors[input].required # Nil THEN RequestErrors[input].required
    ELSE IF ~Found(store, templateID) THEN SystemError("NOT_FOUND", "template", <<>>, <<>>)
    ELSE IF documentTemplateValidateNameUniqueness(store, templateID, input.name, input.company) # Nil
         THEN documentTemplateValidateNameUniqueness(store, templateID, input.name, input.company)
    ELSE IF documentTemplateValidateTypeUniqueness(store, templateID, input.type, input.company) # Nil
         THEN documentTemplateValidateTypeUniqueness(store, templateID, input.type, input.company)
    ELSE RequestErrors[input].fragments[order]

\* the $set of DocumentTemplateUpdate
UpdatedTemplate(old, input) ==
    [old EXCEPT !.name = input.name, !.html = input.html,
                !.variableHtml = input.variableHtml, !.embeddedHtml = input.embeddedHtml,
                !.defaultFileName = input.defaultFileName, !.type = input.type,
                !.company = input.company]

\* a call of a handler: the operation, the _id it named or found (0: none) and
\* the error it returned
Returned(op, id, err) == [op |-> op, id |-> id, err |-> err]

InitStore ==
    /\ templates \in {<<>>} \cup {<<t>> : t \in SeedTemplates}
    /\ written = {}
    /\ ret = Returned("none", 0, NoResult)
    /\ ValidateIdle
    /\ FormatIdle
    /\ SubstituteIdle
    /\ RenderIdle
    /\ ExpandIdle
    /\ QuotationIdle
    /\ ConvertIdle
    /\ RecurseIdle
    /\ RaceIdle

DocumentTemplateCreate ==
    /\ \E input \in Requests : \E order \in DOMAIN RequestErrors[input].fragments :
        LET err == documentTemplateValidateCreate(templates, input, order)
        IN  IF err # Nil
            THEN /\ ret' = Returned("create", 0, err)
                 /\ UNCHANGED <<templates, written>>
            ELSE /\ Len(templates) < MaxTemplates
                 /\ templates' = Append(templates, Template(input, FALSE))
                 /\ written' = written \cup {Len(templates) + 1}
                 /\ ret' = Returned("create", Len(templates) + 1, Nil)
    /\ UNCHANGED <<validateVars, formatVars, substituteVars, renderVars, expandVars, quotationVars, convertVars, recurseVars, raceVars>>

DocumentTemplateUpdate ==
    /\ \E templateID \in TemplateIds : \E input \in Requests :
      \E order \in DOMAIN RequestErrors[input].fragments :
        LET err == documentTemplateValidateUpdate(templates, templateID, input, order)
        IN  IF err # Nil
            THEN /\ ret' = Returned("update", templateID, err)
                 /\ UNCHANGED <<templates, written>>
            ELSE /\ templates' = [templates EXCEPT
                                    ![templateID] = UpdatedTemplate(@, input)]
                 /\ written' = written \cup {templateID}
                 /\ ret' = Returned("update", templateID, Nil)
    /\ UNCHANGED <<validateVars, formatVars, substituteVars, renderVars, expandVars, quotationVars, convertVars, recurseVars, raceVars>>

DocumentTemplateDelete ==
    /\ \E templateID \in TemplateIds :
        IF Found(templates, templateID)
        THEN /\ templates' = [templates EXCEPT ![templateID].isDeleted = TRUE]
             /\ ret' = Returned("delete", templateID, Nil)
             /\ UNCHANGED written
        ELSE /\ ret' = Returned("delete", templateID, SystemError("NOT_FOUND", "template", <<>>, <<>>))
             /\ UNCHANGED <<templates, written>>
    /\ UNCHANGED <<validateVars, formatVars, substituteVars, renderVars, expandVars, quotationVars, convertVars, recurseVars, raceVars>>

DocumentTemplateGetByID ==
    \E templateID \in TemplateIds :
        /\ ret' = Returned("get", templateID, IF Found(templates, templateID) THEN Nil
                           ELSE SystemError("NOT_FOUND", "template", <<>>, <<>>))
        /\ UNCHANGED <<templates, written, validateVars, formatVars, substituteVars, renderVars, expandVars, quotationVars, convertVars, recurseVars, raceVars>>

\* the lookup without the isDeleted filter
FindByTypeWithDeleted(store, templateType, companyID) ==
    LET ofCompany == {i \in 1..Len(store) :
                        store[i].type = templateType /\ store[i].company = companyID}
        defaults == {i \in 1..Len(store) :
                        store[i].type = templateType /\ store[i].isDefault}
    IN  IF companyID # "nil" /\ ofCompany # {} THEN {store[i] : i \in ofCompany}
        ELSE {store[i] : i \in defaults}

\* documentTemplateFindByType: the records FindOne can return; the company's
\* template of the type first, the default template of the type otherwise
documentTemplateFindByType(store, templateType, companyID) ==
    LET ofCompany == {i \in 1..Len(store) :
                        /\ store[i].type = templateType
                        /\ store[i].company = companyID
                        /\ ~store[i].isDeleted}
        defaults == {i \in 1..Len(store) :
                        /\ store[i].type = templateType
                        /\ store[i].isDefault
                        /\ ~store[i].isDeleted}
    IN  IF companyID # "nil" /\ ofCompany # {} THEN {store[i] : i \in ofCompany}
        ELSE {store[i] : i \in defaults}

NotFoundForType == SystemError("NOT_FOUND", "type", <<>>, <<>>)

\* the lookup DocumentTemplatePreview and DocumentTemplateGenerate begin with
FindByType ==
    /\ \E templateType \in TemplateTypes, companyID \in Companies :
        LET found == documentTemplateFindByType(templates, templateType, companyID)
        IN  IF found = {}
            THEN ret' = Returned("find", 0, NotFoundForType)
            ELSE \E id \in 1..Len(templates) :
                    /\ templates[id] \in found
                    /\ ret' = Returned("find", id, Nil)
    /\ UNCHANGED <<templates, written, validateVars, formatVars, substituteVars, renderVars,
                   expandVars, quotationVars, convertVars, recurseVars, raceVars>>

NextStore ==
    \/ DocumentTemplateCreate
    \/ DocumentTemplateUpdate
    \/ DocumentTemplateDelete
    \/ DocumentTemplateGetByID
    \/ FindByType

SpecStore == InitStore /\ [][NextStore]_vars

----------------------------------------------------------------------------
(* SpecFormat: documentTemplateConvertToString applied to one value        *)

\* most decimal digits of a float64 of the model
MaxFracLen == 5

FracDigits == {"0", "2", "3", "4", "5", "6"}

Fractions == UNION {[1..n -> FracDigits] : n \in 0..MaxFracLen}

FormatInputs ==
    {NilValue, Bool(TRUE), Bool(FALSE), String(<<>>), String(<<"x">>), String(<<"1">>)}
    \cup {Float(FALSE, i, fr) : i \in {<<"0">>, <<"1">>}, fr \in Fractions}
    \cup {Float(TRUE, <<"1">>, fr) : fr \in {f \in Fractions : Len(f) <= 1}}

InitFormat ==
    /\ inValue \in FormatInputs
    /\ converted = Pending
    /\ ValidateIdle
    /\ StoreIdle
    /\ SubstituteIdle
    /\ RenderIdle
    /\ ExpandIdle
    /\ QuotationIdle
    /\ ConvertIdle
    /\ RecurseIdle
    /\ RaceIdle

ConvertToString ==
    /\ ~converted.done
    /\ converted' = Done(documentTemplateConvertToString(inValue))
    /\ UNCHANGED <<inValue, validateVars, storeVars, substituteVars, renderVars, expandVars, quotationVars, convertVars, recurseVars, raceVars>>

NextFormat == ConvertToString

SpecFormat == InitFormat /\ [][NextFormat]_vars

----------------------------------------------------------------------------
(* SpecSubstitute: substitution into one HTML string, then the removal of  *)
(* the placeholders that are left, twice                                   *)

\* most pieces an HTML string of this specification is made of
MaxHtmlPieces == 4

HtmlPieces ==
    { Placeholder(<<"a">>), Placeholder(<<" ", "a", " ">>), LB, RB, <<"b">> }

SubstituteHtmls == {JoinAll(ps) : ps \in UNION {[1..n -> HtmlPieces] : n \in 0..MaxHtmlPieces}}

SubstituteValues ==
    {String(<<"v">>), Float(FALSE, <<"1">>, <<>>), NilValue, String(Placeholder(<<"b">>))}

SubstitutePayloads ==
    {<<>>}
    \cup {(<<"a">> :> v) : v \in SubstituteValues}
    \cup {(<<"a">> :> v) @@ (<<"b">> :> String(<<"w">>)) : v \in SubstituteValues}

InitSubstitute ==
    /\ inHtml \in SubstituteHtmls
    /\ inData \in SubstitutePayloads
    /\ replaced = Pending
    /\ removed = Pending
    /\ removedAgain = Pending
    /\ ValidateIdle
    /\ StoreIdle
    /\ FormatIdle
    /\ RenderIdle
    /\ ExpandIdle
    /\ QuotationIdle
    /\ ConvertIdle
    /\ RecurseIdle
    /\ RaceIdle

ReplaceVariables ==
    /\ ~replaced.done
    /\ \E order \in Orders(DOMAIN inData) :
          replaced' = Done(ReplaceVariablesIn(order, inHtml, inData))
    /\ UNCHANGED <<inHtml, inData, removed, removedAgain, validateVars, storeVars, formatVars, renderVars, expandVars, quotationVars, convertVars, recurseVars, raceVars>>

RemoveUnusedPlaceholders ==
    /\ replaced.done /\ ~removed.done
    /\ removed' = Done(documentTemplateRemoveUnusedPlaceholders(replaced.s))
    /\ UNCHANGED <<inHtml, inData, replaced, removedAgain, validateVars, storeVars, formatVars, renderVars, expandVars, quotationVars, convertVars, recurseVars, raceVars>>

RemoveUnusedPlaceholdersAgain ==
    /\ removed.done /\ ~removedAgain.done
    /\ removedAgain' = Done(documentTemplateRemoveUnusedPlaceholders(removed.s))
    /\ UNCHANGED <<inHtml, inData, replaced, removed, validateVars, storeVars, formatVars, renderVars, expandVars, quotationVars, convertVars, recurseVars, raceVars>>

NextSubstitute ==
    \/ ReplaceVariables
    \/ RemoveUnusedPlaceholders
    \/ RemoveUnusedPlaceholdersAgain

SpecSubstitute == InitSubstitute /\ [][NextSubstitute]_vars

----------------------------------------------------------------------------
(* SpecRender: DocumentTemplatePreview and DocumentTemplateGenerate over a *)
(* collection of templates                                                 *)

\* documentTemplateProcessFilename: every match of \{\{([a-zA-Z0-9_.]+)\}\} is
\* replaced by the string of the value looked up under its name
RECURSIVE ReplaceFilenameMatches(_, _, _)
ReplaceFilenameMatches(s, i, data) ==
    IF i > Len(s) THEN <<>>
    ELSE LET e == MatchAt(s, i, WordChars)
         IN  IF e = 0 THEN <<s[i]>> \o ReplaceFilenameMatches(s, i + 1, data)
             ELSE LET varName == SubSeq(s, i + 2, e - 2)
                      value == documentTemplateGetValueByPath(data, varName)
                  IN  (IF value.t = "nil" THEN <<>>
                       ELSE documentTemplateConvertToString(value))
                      \o ReplaceFilenameMatches(s, e + 1, data)

documentTemplateProcessFilename(filename, data) == ReplaceFilenameMatches(filename, 1, data)

PdfSuffix == <<".", "p", "d", "f">>

\* documentTemplateHTMLToPDF: the bytes chromedp prints for the HTML
documentTemplateHTMLToPDF(html) == <<"%PDF">> \o html

\* a record of the collection
Stored(type, company, isDefault, isDeleted, html, variableHtml, embeddedHtml, fileName) ==
    [ name |-> type, html |-> html, variableHtml |-> variableHtml,
      embeddedHtml |-> embeddedHtml, defaultFileName |-> fileName,
      isDefault |-> isDefault, type |-> type, company |-> company,
      isDeleted |-> isDeleted ]

KeyA == <<"a">>

KeyB == <<"b">>

KeyC == <<"c">>

KeyAX == <<"a", ".", "x">>

KeyAB == <<"a", ".", "b">>

KeyABY == <<"a", ".", "b", ".", "y">>

NoFragments == <<>>

\* the collection the render handlers read
RenderCatalog ==
    << \* scalars in the main HTML and in the file name
       Stored(<<"s">>, "nil", TRUE, FALSE,
              <<"<">> \o Placeholder(KeyC) \o <<"|">> \o Placeholder(<<"x">>) \o <<">">>,
              NoFragments, NoFragments, <<"f", "-">> \o Placeholder(KeyC)),
       \* the company's own template of the same type
       Stored(<<"s">>, "c1", FALSE, FALSE, <<"c", "o">> \o Placeholder(KeyC),
              NoFragments, NoFragments, <<"g", ".", "p", "d", "f">>),
       \* variable fragments, one naming the other
       Stored(<<"v">>, "nil", TRUE, FALSE, Placeholder(KeyC) \o Placeholder(KeyB),
              (KeyC :> <<"(">> \o Placeholder(KeyC) \o Placeholder(KeyB) \o <<")">>) @@
              (KeyB :> <<"[">> \o Placeholder(KeyB) \o <<"]">>),
              NoFragments, <<"f">>),
       \* one embedded fragment
       Stored(<<"e">>, "nil", TRUE, FALSE, <<"T">> \o Placeholder(KeyA),
              NoFragments,
              (KeyA :> <<"<">> \o Placeholder(KeyAX) \o Placeholder(KeyA) \o <<">">>),
              <<"f">> \o Placeholder(KeyAX)),
       \* nested embedded fragments
       Stored(<<"n">>, "nil", TRUE, FALSE, Placeholder(KeyA),
              NoFragments,
              (KeyA :> <<"<">> \o Placeholder(KeyAX) \o Placeholder(KeyAB) \o <<">">>) @@
              (KeyAB :> <<"[">> \o Placeholder(KeyABY) \o Placeholder(KeyAB) \o <<"]">>),
              <<"f">>),
       \* a key with both a variable and an embedded fragment
       Stored(<<"m">>, "nil", TRUE, FALSE, Placeholder(KeyA) \o Placeholder(KeyC),
              (KeyA :> <<"(">> \o Placeholder(KeyA) \o <<")">>),
              (KeyA :> <<"<">> \o Placeholder(KeyAX) \o <<">">>),
              <<"f">>),
       \* a deleted template of the company, of a type that has a default
       Stored(<<"v">>, "c1", FALSE, TRUE, <<"c", "o">>, NoFragments, NoFragments, <<"f">>),
       \* a template of another company, of a type that has a default
       Stored(<<"e">>, "c2", FALSE, FALSE, <<"c", "o">>, NoFragments, NoFragments, <<"f">>),
       \* a deleted default
       Stored(<<"d">>, "nil", TRUE, TRUE, <<"h">>, NoFragments, NoFragments, <<"f">>),
       \* a company template of a type that has no default
       Stored(<<"p">>, "c1", FALSE, FALSE, <<"h">>, NoFragments, NoFragments, <<"f">>),
       \* a variable fragment that names its key between spaces
       Stored(<<"w">>, "nil", TRUE, FALSE, <<"<">> \o Placeholder(KeyC) \o <<">">>,
              (KeyC :> <<"(", "{", "{", " ", "c", " ", "}", "}", ")">>),
              NoFragments, <<"f">>),
       \* variable fragments that name each other, one of them on an embedded key
       Stored(<<"o">>, "nil", TRUE, FALSE, Placeholder(KeyA) \o <<"|">> \o Placeholder(KeyC),
              (KeyA :> <<"(">> \o Placeholder(KeyA) \o Placeholder(KeyC) \o <<")">>) @@
              (KeyC :> <<"[">> \o Placeholder(KeyC) \o Placeholder(KeyA) \o <<"]">>),
              (KeyA :> <<"<">> \o Placeholder(KeyAX) \o <<">">>),
              <<"f">>) >>

RenderTypes == {RenderCatalog[i].type : i \in 1..Len(RenderCatalog)} \cup {<<"z">>}


\* payloads of the request body
RenderPayloads ==
    { <<>>,
      (KeyC :> String(<<"C">>)),
      (KeyC :> Float(FALSE, <<"1">>, <<"5">>)),
      (KeyC :> NilValue),
      (KeyC :> String(<<"C">>)) @@ (KeyB :> String(<<"B">>)),
      (KeyC :> String(Placeholder(KeyB))) @@ (KeyB :> String(<<"B">>)),
      (KeyA :> Array(<< Object(<<"x">> :> String(<<"1">>)),
                        Object(<<"x">> :> String(<<"2">>)) >>)),
      (KeyA :> Array(<< Object((<<"x">> :> String(<<"1">>)) @@
                            (KeyB :> Array(<< Object(<<"y">> :> String(<<"p">>)),
                                              Object(<<"y">> :> String(<<"q">>)) >>))),
                        Object(<<"x">> :> Float(FALSE, <<"2">>, <<>>)) >>)),
      (KeyA :> Array(<< Object((<<"x">> :> String(<<"1">>)) @@
                            (KeyB :> Array(<<String(<<"p">>), String(<<"q">>)>>))) >>)),
      (KeyA :> Array(<<String(<<"s">>), Float(FALSE, <<"2">>, <<>>)>>)),
      (KeyA :> Array(<< Object(<<"x">> :> String(<<"1">>)), String(<<"s">>) >>)),
      (KeyA :> Array(<<>>)),
      (KeyA :> Object((<<"x">> :> String(<<"1">>)) @@
                   (KeyB :> Object(<<"y">> :> String(<<"p">>))))),
      (KeyA :> String(<<"s">>)) @@ (KeyC :> Bool(TRUE)),
      (KeyA :> NilValue),
      (KeyC :> String(<<"{", "{">> \o Placeholder(<<"x">>) \o <<"b", "}", "}">>)),
      (KeyA :> Object(<<"x">> :> String(<<"1">>))) @@ (KeyC :> String(<<"C">>)) }

InitRender ==
    /\ templates = RenderCatalog
    /\ written = {}
    /\ ret = Returned("none", 0, NoResult)
    /\ call = NoCall
    /\ phases = NoPhases
    /\ response = NoResponse
    /\ ValidateIdle
    /\ FormatIdle
    /\ SubstituteIdle
    /\ ExpandIdle
    /\ QuotationIdle
    /\ ConvertIdle
    /\ RecurseIdle
    /\ RaceIdle

\* documentTemplateProcessHTML of every template of the collection over every
\* payload, computed once
ProcessHTMLRuns ==
    [template \in {RenderCatalog[i] : i \in 1..Len(RenderCatalog)} |->
        [data \in RenderPayloads |->
            [forPreview \in BOOLEAN |->
                documentTemplateProcessHTML(template, data, forPreview)]]]

Ran(template, run) ==
    [ run |-> TRUE, template |-> template, afterEmbedded |-> run.afterEmbedded,
      afterVariable |-> run.afterVariable, callerData |-> run.callerData,
      callerTemplate |-> run.callerTemplate ]

Failed(err) == [NoResponse EXCEPT !.err = err]

DocumentTemplatePreview ==
    /\ \E templateType \in RenderTypes, data \in RenderPayloads, companyID \in Companies :
        LET found == documentTemplateFindByType(templates, templateType, companyID)
        IN  /\ call' = [op |-> "preview", type |-> templateType, data |-> data,
                        company |-> companyID]
            /\ IF found = {}
               THEN /\ phases' = NoPhases
                    /\ response' = Failed(NotFoundForType)
               ELSE \E template \in found :
                    \E run \in ProcessHTMLRuns[template][data][TRUE] :
                        /\ phases' = Ran(template, run)
                        /\ response' = IF run.err # Nil THEN Failed(run.err)
                                       ELSE [NoResponse EXCEPT !.html = run.html,
                                                               !.err = Nil]
    /\ UNCHANGED <<validateVars, storeVars, formatVars, substituteVars, expandVars, quotationVars, convertVars, recurseVars, raceVars>>

DocumentTemplateGenerate ==
    /\ \E templateType \in RenderTypes, data \in RenderPayloads, companyID \in Companies :
        LET found == documentTemplateFindByType(templates, templateType, companyID)
        IN  /\ call' = [op |-> "generate", type |-> templateType, data |-> data,
                        company |-> companyID]
            /\ IF found = {}
               THEN /\ phases' = NoPhases
                    /\ response' = Failed(NotFoundForType)
               ELSE \E template \in found :
                    \E run \in ProcessHTMLRuns[template][data][FALSE] :
                    \E printed \in BOOLEAN :
                        LET filename == documentTemplateProcessFilename(
                                            template.defaultFileName, data)
                        IN  /\ phases' = Ran(template, run)
                            /\ response' =
                                  IF run.err # Nil THEN Failed(run.err)
                                  ELSE IF ~printed
                                  THEN Failed(SystemError("INTERNAL", "pdf", <<>>, <<>>))
                                  ELSE [ html |-> <<>>,
                                         pdf |-> documentTemplateHTMLToPDF(run.html),
                                         filename |-> IF HasSuffix(filename, PdfSuffix)
                                                      THEN filename
                                                      ELSE filename \o PdfSuffix,
                                         err |-> Nil ]
    /\ UNCHANGED <<validateVars, storeVars, formatVars, substituteVars, expandVars, quotationVars, convertVars, recurseVars, raceVars>>

NextRender == DocumentTemplatePreview \/ DocumentTemplateGenerate

SpecRender == InitRender /\ [][NextRender]_vars

----------------------------------------------------------------------------
(* SpecExpand: documentTemplateProcessEmbeddedHtml applied to one fragment *)
(* key of one fragment map over one data scope                             *)

\* most elements of an array of the scope
MaxItems == 2

KeyABC == <<"a", ".", "b", ".", "c">>

KeyAY == <<"a", ".", "y">>

\* embeddedHtml maps: one fragment, a fragment with a child, a fragment with a
\* child and a grandchild, two fields, a field of a nested object
ExpandMaps ==
    { (KeyA :> <<"<">> \o Placeholder(KeyAX) \o Placeholder(KeyA) \o <<">">>),
      (KeyA :> <<"<">> \o Placeholder(KeyAX) \o Placeholder(KeyAB) \o <<">">>) @@
      (KeyAB :> <<"[">> \o Placeholder(KeyABY) \o Placeholder(KeyAB) \o <<"]">>),
      (KeyA :> <<"<">> \o Placeholder(KeyAB) \o Placeholder(KeyABC) \o <<">">>) @@
      (KeyAB :> <<"[">> \o Placeholder(KeyABC) \o <<"]">>) @@
      (KeyABC :> <<"(">> \o Placeholder(KeyABC \o <<".", "y">>) \o Placeholder(KeyABC)
                        \o <<")">>),
      (KeyA :> <<"<">> \o Placeholder(KeyAX) \o <<"|">> \o Placeholder(KeyAY) \o <<">">>),
      (KeyA :> <<"<">> \o Placeholder(KeyAX) \o Placeholder(KeyABY) \o <<">">>) }

\* scalars of a JSON body
ExpandScalars == {String(<<"s">>), Float(FALSE, <<"2">>, <<>>), Bool(TRUE)}

\* objects of a JSON body
ExpandObjects ==
    { Object(<<"x">> :> String(<<"1">>)),
      Object((<<"x">> :> String(<<"2">>)) @@ (<<"y">> :> Float(FALSE, <<"1">>, <<"5">>))),
      Object(<<"y">> :> String(<<"p">>)),
      Object((<<"x">> :> String(<<"1">>)) @@
             (KeyB :> Array(<< Object(<<"y">> :> String(<<"p">>)),
                               Object(<<"y">> :> String(<<"q">>)) >>))),
      Object(KeyB :> Array(<<String(<<"p">>), String(<<"q">>)>>)),
      Object((<<"x">> :> String(<<"1">>)) @@ (KeyB :> Object(<<"y">> :> String(<<"p">>)))),
      Object(KeyC :> Array(<< Object(<<"y">> :> String(<<"p">>)) >>)) }

ExpandElements == ExpandScalars \cup ExpandObjects

ExpandArrays ==
    UNION {[1..n -> ExpandElements] : n \in 0..MaxItems}

ExpandValues ==
    {NilValue} \cup ExpandElements \cup {Array(items) : items \in ExpandArrays}

\* other keys of the scope, named like fields of the elements
ScopeRest == (KeyB :> String(<<"r">>)) @@ (<<"x">> :> String(<<"r">>))

InitExpand ==
    /\ expandMap \in ExpandMaps
    /\ expandKey \in DOMAIN expandMap
    /\ expandScope \in {<<>>} \cup {LastSegment(expandKey) :> v : v \in ExpandValues}
                         \cup {(LastSegment(expandKey) :> v) @@ ScopeRest : v \in ExpandValues}
    /\ expanded = Pending
    /\ ValidateIdle
    /\ StoreIdle
    /\ FormatIdle
    /\ SubstituteIdle
    /\ RenderIdle
    /\ QuotationIdle
    /\ ConvertIdle
    /\ RecurseIdle
    /\ RaceIdle

ProcessEmbeddedHtml ==
    /\ ~expanded.done
    /\ \E result \in documentTemplateProcessEmbeddedHtml(
                         expandKey, expandMap[expandKey], expandScope, expandMap) :
          expanded' = Done(result)
    /\ UNCHANGED <<expandKey, expandMap, expandScope, validateVars, storeVars, formatVars,
                   substituteVars, renderVars, quotationVars, convertVars, recurseVars, raceVars>>

NextExpand == ProcessEmbeddedHtml

SpecExpand == InitExpand /\ [][NextExpand]_vars

----------------------------------------------------------------------------
(* SpecRecurse: the expander call by call, the calls in progress on a stack *)

\* the deepest stack the steps build; a call past it is not made
MaxDepth == 8

\* a call of documentTemplateProcessEmbeddedHtml(key, embeddedHtmlMap[key], data, ...):
\* items are the elements still to process, results the HTML of those done
EmbeddedFrame(key, data) ==
    [ fn |-> "embedded", key |-> key, data |-> data, started |-> FALSE,
      items |-> <<>>, results |-> <<>> ]

\* a call of documentTemplateProcessNestedEmbedded(html, parentKey, itemData, ...):
\* order is what is left of the range over the map
NestedFrame(html, parentKey, itemData, order) ==
    [ fn |-> "nested", html |-> html, parentKey |-> parentKey, itemData |-> itemData,
      order |-> order ]

Top == stack[Len(stack)]

Below == SubSeq(stack, 1, Len(stack) - 1)

\* the stacks and results the return of the innermost call with result can
\* leave: the caller's loop takes the result and moves on
AfterReturn(result) ==
    IF Len(stack) = 1 THEN {[stack |-> <<>>, expanded |-> Done(result)]}
    ELSE LET caller == stack[Len(stack) - 1]
             rest == SubSeq(stack, 1, Len(stack) - 2)
         IN  IF caller.fn = "nested"
             THEN {[ stack |-> Append(rest,
                        [caller EXCEPT !.html = ReplaceAll(caller.html,
                                                    Placeholder(Head(caller.order)), result),
                                       !.order = Tail(caller.order)]),
                     expanded |-> expanded ]}
             ELSE {[ stack |-> Append(rest,
                        [caller EXCEPT !.results = Append(caller.results, itemHtml),
                                       !.items = Tail(caller.items)]),
                     expanded |-> expanded ] :
                     itemHtml \in documentTemplateReplaceNestedVariables(
                                      result, caller.key, Head(caller.items).fields)}

\* fragment maps whose snippets name each other: parent and child, two siblings
CyclicMaps ==
    { (KeyA :> <<"<">> \o Placeholder(KeyAB) \o <<">">>) @@
      (KeyAB :> <<"[">> \o Placeholder(KeyA) \o Placeholder(KeyABY) \o <<"]">>),
      (KeyA :> <<"<">> \o Placeholder(KeyB) \o Placeholder(KeyAX) \o <<">">>) @@
      (KeyB :> <<"[">> \o Placeholder(KeyA) \o <<"]">>) }

RecurseMaps == ExpandMaps \cup CyclicMaps

\* objects that hold under a and b what the snippets of CyclicMaps name
CyclicObjects ==
    { Object((KeyB :> Object((KeyA :> Object(KeyB :> String(<<"s">>))) @@
                             (<<"y">> :> String(<<"p">>)))) @@
             (<<"x">> :> String(<<"1">>))),
      Object((KeyB :> Array(<< Object((KeyA :> Array(<<Object(KeyB :> String(<<"s">>))>>)) @@
                                      (<<"y">> :> String(<<"p">>))) >>)) @@
             (KeyA :> Object(KeyB :> String(<<"s">>)))) }

RecurseObjects == ExpandObjects \cup CyclicObjects

RecurseValues ==
    {NilValue} \cup ExpandScalars \cup RecurseObjects
    \cup {Array(<<>>), Array(<<String(<<"s">>), Bool(TRUE)>>)}
    \cup {Array(<<o>>) : o \in RecurseObjects}
    \cup {Array(<<o, String(<<"s">>)>>) : o \in CyclicObjects}
    \cup {Array(<<o1, o2>>) : o1 \in CyclicObjects, o2 \in RecurseObjects}

InitRecurse ==
    /\ expandMap \in RecurseMaps
    /\ expandKey \in DOMAIN expandMap
    /\ expandScope \in {<<>>} \cup {LastSegment(expandKey) :> v : v \in RecurseValues}
    /\ expanded = Pending
    /\ stack = <<EmbeddedFrame(expandKey, expandScope)>>
    /\ ValidateIdle
    /\ StoreIdle
    /\ FormatIdle
    /\ SubstituteIdle
    /\ RenderIdle
    /\ QuotationIdle
    /\ ConvertIdle
    /\ RaceIdle

\* documentTemplateProcessEmbeddedHtml from its entry to its loop over the
\* elements, or to its return when there is nothing to loop over
EmbeddedEnters ==
    /\ stack # <<>>
    /\ Top.fn = "embedded"
    /\ ~Top.started
    /\ LET value == documentTemplateGetValueByPath(Top.data, Top.key)
           objects == \/ value.t = "object"
                      \/ value.t = "array" /\ Len(value.items) > 0
                                           /\ value.items[1].t = "object"
       IN  IF objects
           THEN /\ stack' = Append(Below,
                      [Top EXCEPT !.started = TRUE,
                                  !.items = IF value.t = "object" THEN <<value>>
                                            ELSE value.items])
                /\ UNCHANGED expanded
           ELSE \E out \in AfterReturn(
                       CASE value.t = "nil" -> <<>>
                         [] value.t = "array" ->
                               JoinAll([i \in 1..Len(value.items) |->
                                   ReplaceAll(expandMap[Top.key], Placeholder(Top.key),
                                              SprintV(value.items[i]))])
                         [] OTHER -> SprintV(value)) :
                    stack' = out.stack /\ expanded' = out.expanded
    /\ UNCHANGED <<expandKey, expandMap, expandScope, validateVars, storeVars, formatVars,
                   substituteVars, renderVars, quotationVars, convertVars, raceVars>>

\* one turn of the loop over the elements: an element that is no object is
\* passed over, an object gets its nested fragments processed; after the
\* last element the results are joined and returned
EmbeddedNextItem ==
    /\ stack # <<>>
    /\ Top.fn = "embedded"
    /\ Top.started
    /\ IF Top.items = <<>>
       THEN \E out \in AfterReturn(JoinAll(Top.results)) :
                stack' = out.stack /\ expanded' = out.expanded
       ELSE IF Head(Top.items).t # "object"
       THEN stack' = Append(Below, [Top EXCEPT !.items = Tail(Top.items)])
            /\ UNCHANGED expanded
       ELSE /\ Len(stack) < MaxDepth
            /\ \E order \in Orders(DOMAIN expandMap) :
                  stack' = Append(stack, NestedFrame(expandMap[Top.key], Top.key,
                                                     Head(Top.items).fields, order))
            /\ UNCHANGED expanded
    /\ UNCHANGED <<expandKey, expandMap, expandScope, validateVars, storeVars, formatVars,
                   substituteVars, renderVars, quotationVars, convertVars, raceVars>>

\* one turn of the range over the map in documentTemplateProcessNestedEmbedded
NestedNextKey ==
    /\ stack # <<>>
    /\ Top.fn = "nested"
    /\ IF Top.order = <<>>
       THEN \E out \in AfterReturn(Top.html) :
                stack' = out.stack /\ expanded' = out.expanded
       ELSE LET nestedKey == Head(Top.order)
                placeholder == Placeholder(nestedKey)
                fieldName == LastSegment(nestedKey)
            IN  IF BelongsToParent(nestedKey, Top.parentKey) /\ Contains(Top.html, placeholder)
                THEN IF fieldName \in DOMAIN Top.itemData
                     THEN /\ Len(stack) < MaxDepth
                          /\ stack' = Append(stack,
                                 EmbeddedFrame(nestedKey, fieldName :> Top.itemData[fieldName]))
                          /\ UNCHANGED expanded
                     ELSE /\ stack' = Append(Below,
                                 [Top EXCEPT !.html = ReplaceAll(Top.html, placeholder, <<>>),
                                             !.order = Tail(Top.order)])
                          /\ UNCHANGED expanded
                ELSE /\ stack' = Append(Below, [Top EXCEPT !.order = Tail(Top.order)])
                     /\ UNCHANGED expanded
    /\ UNCHANGED <<expandKey, expandMap, expandScope, validateVars, storeVars, formatVars,
                   substituteVars, renderVars, quotationVars, convertVars, raceVars>>

NextRecurse == EmbeddedEnters \/ EmbeddedNextItem \/ NestedNextKey

SpecRecurse == InitRecurse /\ [][NextRecurse]_vars

\* every step is the program's own: a call in progress goes on
SpecRecurseFair == SpecRecurse /\ WF_vars(NextRecurse)

----------------------------------------------------------------------------
(* SpecQuotation: the quotation variant, its collection and its two        *)
(* render handlers                                                         *)

MaxQuotations == 2

UpperChars == <<"A", "B", "C", "D", "E", "F", "G", "H", "I", "J", "K", "L", "M",
                "N", "O", "P", "Q", "R", "S", "T", "U", "V", "W", "X", "Y", "Z">>

LowerChars == <<"a", "b", "c", "d", "e", "f", "g", "h", "i", "j", "k", "l", "m",
                "n", "o", "p", "q", "r", "s", "t", "u", "v", "w", "x", "y", "z">>

\* strings.ToLower
ToLower(s) ==
    [i \in 1..Len(s) |->
        IF \E k \in 1..Len(UpperChars) : UpperChars[k] = s[i]
        THEN LowerChars[CHOOSE k \in 1..Len(UpperChars) : UpperChars[k] = s[i]]
        ELSE s[i]]

priceKeywords ==
    { <<"p", "r", "i", "c", "e">>, <<"t", "o", "t", "a", "l">>,
      <<"s", "u", "b", "t", "o", "t", "a", "l">>, <<"a", "m", "o", "u", "n", "t">>,
      <<"c", "o", "s", "t">>, <<"d", "i", "s", "c", "o", "u", "n", "t">>,
      <<"t", "a", "x">>, <<"s", "s", "t">>, <<"g", "r", "a", "n", "d">> }

quotationTemplateIsPriceVariable(variableName) ==
    \E keyword \in priceKeywords : Contains(ToLower(variableName), keyword)

\* s without its leading "0"s, one digit at least
RECURSIVE TrimLeadingZeros(_)
TrimLeadingZeros(s) ==
    IF s = <<>> THEN <<"0">>
    ELSE IF Head(s) = "0" /\ Len(s) > 1 THEN TrimLeadingZeros(Tail(s)) ELSE s

\* strconv.ParseFloat(s, 64) of a decimal numeral, sign and point optional;
\* anything else is an error here (exponents, hexadecimal and the special
\* values are used by no input of the model)
ParseFloat(s) ==
    LET signed == s # <<>> /\ Head(s) \in {"-", "+"}
        body == IF signed THEN Tail(s) ELSE s
        dots == {i \in 1..Len(body) : body[i] = "."}
        digits == {DigitOrder[i] : i \in 1..Len(DigitOrder)}
        point == IF dots = {} THEN Len(body) + 1 ELSE CHOOSE i \in dots : TRUE
        whole == SubSeq(body, 1, point - 1)
        decimals == SubSeq(body, point + 1, Len(body))
        ok == /\ Cardinality(dots) <= 1
              /\ Len(whole) + Len(decimals) > 0
              /\ \A i \in 1..Len(body) : i \in dots \/ body[i] \in digits
    IN  [ ok |-> ok,
          f |-> IF ok THEN Float(signed /\ Head(s) = "-", TrimLeadingZeros(whole), decimals)
                ELSE Float(FALSE, <<"0">>, <<>>) ]

\* utils.FormatPriceString
FormatPriceString(value, decimals) ==
    CASE value.t = "string" ->
            IF TrimSpace(value.s) = <<>> THEN <<>>
            ELSE IF ~ParseFloat(value.s).ok THEN SprintV(value)
            ELSE SprintfFixed(decimals, ParseFloat(value.s).f)
      [] value.t = "float" -> SprintfFixed(decimals, value)
      [] OTHER -> SprintV(value)

\* the number of decimals both handlers ask of utils.FormatPriceString
PriceDecimals == 2

AreaSectionMark == <<"[[areaSection]]">>

TermConditionSectionMark == <<"[[termConditionSection]]">>

\* one row of the items table
ItemRow(item) ==
    <<"<tr><td class=\"item-number\">">> \o item.itemNo \o
    <<"</td><td class=\"description\">">> \o item.itemName \o <<"<br />">> \o
    item.itemDescription \o
    <<"</td><td class=\"qty\">">> \o item.itemQuantity \o
    <<"</td><td class=\"unit\">">> \o item.itemUnit \o
    <<"</td><td class=\"unit-price amount\">">> \o item.itemUnitPrice \o
    <<"</td><td class=\"total-price amount\">">> \o item.itemTotalPrince \o
    <<"</td></tr>">>

\* the body of the loop over the areas
AreaSection(area, areaHTMLContent) ==
    LET s1 == ReplaceAll(areaHTMLContent, Placeholder(<<"areaNameTitle">>), area.areaNameTitle)
        s2 == ReplaceAll(s1, Placeholder(<<"areaName">>), area.areaName)
        s3 == ReplaceAll(s2, Placeholder(<<"areaDetail">>), area.areaDetail)
        s4 == ReplaceAll(s3, Placeholder(<<"areaSubTotalTitle">>), area.areaSubTotalTitle)
        s5 == ReplaceAll(s4, Placeholder(<<"areaSubTotal">>), area.areaSubTotal)
        itemsHTML == JoinAll([i \in 1..Len(area.areaItems) |-> ItemRow(area.areaItems[i])])
    IN  ReplaceAll(s5, Placeholder(<<"areaItemRowFunc">>), itemsHTML)

quotationTemplateGenerateAreaSectionHTML(areas, areaHTMLContent) ==
    JoinAll([i \in 1..Len(areas) |-> AreaSection(areas[i], areaHTMLContent)])

quotationTemplateGenerateTermConditionHTML(termConditions) ==
    IF Len(termConditions) = 0 THEN <<>>
    ELSE <<"<ol class=\"term-conditions\">">> \o
         JoinAll([i \in 1..Len(termConditions) |->
                     <<"<li class=\"term-condition-item\">">> \o termConditions[i] \o
                     <<"</li>">>]) \o
         <<"</ol>">>

quotationTemplateExtractVariablesFromHTML(htmlContent) ==
    CollectVariables(FindAllSubmatch(htmlContent, 1), <<>>)

\* the check of the stored variable list that forgets every entry but the first
FirstRequiredVariableHeadOnly(variableList, variables) ==
    IF variableList = <<>> \/ Head(variableList) \in DOMAIN variables THEN Nil
    ELSE SystemError("VALIDATION", "required", <<>>, Head(variableList))

\* the loop over template.VariableList: the error for the first entry that is
\* no key of input.Variables, Nil if there is none
RECURSIVE FirstRequiredVariable(_, _)
FirstRequiredVariable(variableList, variables) ==
    IF variableList = <<>> THEN Nil
    ELSE IF Head(variableList) \notin DOMAIN variables
         THEN SystemError("VALIDATION", "required", <<>>, Head(variableList))
         ELSE FirstRequiredVariable(Tail(variableList), variables)

\* the loop over input.Variables, the range visiting the keys in order
RECURSIVE QuotationReplaceIn(_, _, _)
QuotationReplaceIn(order, html, variables) ==
    IF order = <<>> THEN html
    ELSE LET variable == Head(order)
             processedValue == IF quotationTemplateIsPriceVariable(variable)
                               THEN FormatPriceString(variables[variable], PriceDecimals)
                               ELSE SprintV(variables[variable])
         IN  QuotationReplaceIn(Tail(order),
                                ReplaceAll(html, Placeholder(variable), processedValue),
                                variables)

\* the HTML both handlers build before the style sheet is added: the set of
\* the results the iteration orders of input.Variables can give
QuotationHtml(template, input) ==
    LET areaSectionHTML ==
            quotationTemplateGenerateAreaSectionHTML(input.areas, template.areaHTMLContent)
        termConditionHTML == quotationTemplateGenerateTermConditionHTML(input.termConditions)
        html1 == ReplaceAll(template.mainHTMLContent, AreaSectionMark, areaSectionHTML)
        html2 == ReplaceAll(html1, TermConditionSectionMark, termConditionHTML)
    IN  {QuotationReplaceIn(order, html2, input.variables) :
            order \in Orders(DOMAIN input.variables)}

PreviewStyled(cssContent, html) ==
    IF cssContent # <<>> THEN <<"<style>">> \o cssContent \o <<"</style>">> \o html
    ELSE html

GenerateStyled(cssContent, html) ==
    IF cssContent # <<>>
    THEN <<"<!DOCTYPE html><html><head><style>">> \o cssContent \o
         <<"</style></head><body>">> \o html \o <<"</body></html>">>
    ELSE html

quotationTemplateHTMLToPDF(html) == <<"%PDF">> \o html

\* QuotationTemplateGetByID: filter {_id, isDeleted: false}
QuotationFound(store, id) == id \in 1..Len(store) /\ ~store[id].isDeleted

QuotationNotFound == SystemError("NOT_FOUND", "quotation", <<>>, <<>>)

\* the three required-field checks of create and update
QuotationRequired(input) ==
    IF TrimSpace(input.name) = <<>> THEN SystemError("VALIDATION", "required", <<"name">>, <<>>)
    ELSE IF TrimSpace(input.mainHTMLContent) = <<>>
         THEN SystemError("VALIDATION", "required", <<"mainHTMLContent">>, <<>>)
    ELSE IF TrimSpace(input.defaultFileName) = <<>>
         THEN SystemError("VALIDATION", "required", <<"defaultFileName">>, <<>>)
    ELSE Nil

\* the record QuotationTemplateCreate inserts
QuotationTemplate(input) ==
    [ name |-> input.name, isDeleted |-> FALSE, isEnabled |-> TRUE,
      mainHTMLContent |-> input.mainHTMLContent, cssContent |-> input.cssContent,
      areaHTMLContent |-> input.areaHTMLContent,
      variableList |-> quotationTemplateExtractVariablesFromHTML(input.mainHTMLContent),
      defaultFileName |-> input.defaultFileName ]

\* the $set of QuotationTemplateUpdate
QuotationUpdated(old, input) ==
    [ old EXCEPT !.name = input.name,
                 !.mainHTMLContent = input.mainHTMLContent,
                 !.cssContent = input.cssContent,
                 !.areaHTMLContent = input.areaHTMLContent,
                 !.variableList = quotationTemplateExtractVariablesFromHTML(input.mainHTMLContent),
                 !.defaultFileName = input.defaultFileName,
                 !.isEnabled = input.isEnabled ]

KeyTax == <<"T", "a", "x">>

QuotationAreaHtml ==
    Placeholder(<<"areaName">>) \o <<":">> \o Placeholder(<<"areaItemRowFunc">>) \o
    Placeholder(<<"areaSubTotal">>)

\* main HTML naming a and Tax and both sections; naming a between spaces;
\* naming nothing
QuotationMainHtml ==
    <<"<">> \o Placeholder(KeyA) \o <<"|">> \o Placeholder(KeyTax) \o <<">">> \o
    AreaSectionMark \o TermConditionSectionMark

QuotationSpacedHtml == <<"{", "{", " ">> \o KeyA \o <<" ", "}", "}">>

QuotationInput(name, html, css, fileName, enabled) ==
    [ name |-> name, mainHTMLContent |-> html, cssContent |-> css,
      areaHTMLContent |-> QuotationAreaHtml, defaultFileName |-> fileName,
      isEnabled |-> enabled ]

\* three requests that pass the required-field checks, and one that fails each
QuotationInputs ==
    { QuotationInput(<<"n">>, QuotationMainHtml, <<>>, <<"q">>, TRUE),
      QuotationInput(<<"n">>, QuotationSpacedHtml, <<"c">>, <<"q">> \o PdfSuffix, FALSE),
      QuotationInput(<<"n">>, <<"p">>, <<>>, <<"q">>, TRUE),
      QuotationInput(<<>>, <<"p">>, <<>>, <<"q">>, TRUE),
      QuotationInput(<<"n">>, <<" ">>, <<>>, <<"q">>, TRUE),
      QuotationInput(<<"n">>, <<"p">>, <<>>, <<" ">>, TRUE) }

QuotationItem ==
    [ itemNo |-> <<"1">>, itemName |-> <<"i">>, itemDescription |-> <<"d">>,
      itemQuantity |-> <<"2">>, itemUnit |-> <<"u">>, itemUnitPrice |-> <<"3">>,
      itemTotalPrince |-> <<"6">> ]

QuotationArea ==
    [ areaNameTitle |-> <<"T">>, areaName |-> <<"k">>, areaDetail |-> <<"d">>,
      areaSubTotalTitle |-> <<"S">>, areaSubTotal |-> <<"6">>,
      areaItems |-> <<QuotationItem>> ]

FullVariables == (KeyA :> String(<<"v">>)) @@ (KeyTax :> String(<<"3">>))

QuotationVariables ==
    { <<>>,
      KeyA :> String(<<"v">>),
      KeyTax :> Float(FALSE, <<"1", "2">>, <<"5">>),
      FullVariables,
      (KeyA :> NilValue) @@ (KeyTax :> String(<<"x">>)),
      (KeyB :> Bool(TRUE)) @@ (KeyTax :> String(<<" ">>)) }

\* model.QuotationTemplatePreviewRequest without its TemplateID
QuotationPreviewInputs ==
    {[variables |-> v, areas |-> <<>>, termConditions |-> <<>>] : v \in QuotationVariables}
    \cup {[variables |-> v, areas |-> <<QuotationArea>>, termConditions |-> <<<<"t">>>>] :
             v \in {<<>>, FullVariables}}

QuoteFailed(err) == [NoResponse EXCEPT !.err = err]

InitQuotation ==
    /\ quotations = <<>>
    /\ quoteCall = NoQuoteCall
    /\ quoteResponse = NoResponse
    /\ ValidateIdle
    /\ StoreIdle
    /\ FormatIdle
    /\ SubstituteIdle
    /\ RenderIdle
    /\ ExpandIdle
    /\ ConvertIdle
    /\ RecurseIdle
    /\ RaceIdle

QuotationTemplateCreate ==
    /\ Len(quotations) < MaxQuotations
    /\ \E input \in QuotationInputs :
          /\ quoteCall' = [op |-> "create", id |-> 0, input |-> input]
          /\ IF QuotationRequired(input) # Nil
             THEN /\ quoteResponse' = QuoteFailed(QuotationRequired(input))
                  /\ UNCHANGED quotations
             ELSE /\ quotations' = Append(quotations, QuotationTemplate(input))
                  /\ quoteResponse' = QuoteFailed(Nil)
    /\ UNCHANGED <<validateVars, storeVars, formatVars, substituteVars, renderVars, expandVars,
                   convertVars, recurseVars, raceVars>>

QuotationTemplateUpdate ==
    /\ \E id \in 1..MaxQuotations, input \in QuotationInputs :
          /\ quoteCall' = [op |-> "update", id |-> id, input |-> input]
          /\ IF QuotationRequired(input) # Nil
             THEN /\ quoteResponse' = QuoteFailed(QuotationRequired(input))
                  /\ UNCHANGED quotations
             ELSE IF QuotationFound(quotations, id)
             THEN /\ quotations' = [quotations EXCEPT
                                       ![id] = QuotationUpdated(quotations[id], input)]
                  /\ quoteResponse' = QuoteFailed(Nil)
             ELSE /\ quoteResponse' = QuoteFailed(QuotationNotFound)
                  /\ UNCHANGED quotations
    /\ UNCHANGED <<validateVars, storeVars, formatVars, substituteVars, renderVars, expandVars,
                   convertVars, recurseVars, raceVars>>

QuotationTemplateDelete ==
    /\ \E id \in 1..MaxQuotations :
          /\ quoteCall' = [op |-> "delete", id |-> id, input |-> <<>>]
          /\ IF QuotationFound(quotations, id)
             THEN /\ quotations' = [quotations EXCEPT ![id].isDeleted = TRUE]
                  /\ quoteResponse' = QuoteFailed(Nil)
             ELSE /\ quoteResponse' = QuoteFailed(QuotationNotFound)
                  /\ UNCHANGED quotations
    /\ UNCHANGED <<validateVars, storeVars, formatVars, substituteVars, renderVars, expandVars,
                   convertVars, recurseVars, raceVars>>

QuotationTemplatePreview ==
    /\ \E id \in 1..MaxQuotations, input \in QuotationPreviewInputs :
          /\ quoteCall' = [op |-> "preview", id |-> id, input |-> input]
          /\ IF ~QuotationFound(quotations, id)
             THEN quoteResponse' = QuoteFailed(QuotationNotFound)
             ELSE LET template == quotations[id]
                      err == FirstRequiredVariable(template.variableList, input.variables)
                  IN  IF err # Nil THEN quoteResponse' = QuoteFailed(err)
                      ELSE \E html \in QuotationHtml(template, input) :
                              quoteResponse' =
                                  [NoResponse EXCEPT
                                      !.html = PreviewStyled(template.cssContent, html),
                                      !.err = Nil]
    /\ UNCHANGED <<quotations, validateVars, storeVars, formatVars, substituteVars, renderVars,
                   expandVars, convertVars, recurseVars, raceVars>>

QuotationTemplateGenerate ==
    /\ \E id \in 1..MaxQuotations, input \in QuotationPreviewInputs :
          /\ quoteCall' = [op |-> "generate", id |-> id, input |-> input]
          /\ IF ~QuotationFound(quotations, id)
             THEN quoteResponse' = QuoteFailed(QuotationNotFound)
             ELSE LET template == quotations[id]
                      err == FirstRequiredVariable(template.variableList, input.variables)
                  IN  IF err # Nil THEN quoteResponse' = QuoteFailed(err)
                      ELSE \E html \in QuotationHtml(template, input), printed \in BOOLEAN :
                              quoteResponse' =
                                  IF ~printed
                                  THEN QuoteFailed(SystemError("INTERNAL", "pdf", <<>>, <<>>))
                                  ELSE [ html |-> <<>>,
                                         pdf |-> quotationTemplateHTMLToPDF(
                                                    GenerateStyled(template.cssContent, html)),
                                         filename |->
                                            IF HasSuffix(template.defaultFileName, PdfSuffix)
                                            THEN template.defaultFileName
                                            ELSE template.defaultFileName \o PdfSuffix,
                                         err |-> Nil ]
    /\ UNCHANGED <<quotations, validateVars, storeVars, formatVars, substituteVars, renderVars,
                   expandVars, convertVars, recurseVars, raceVars>>

NextQuotation ==
    \/ QuotationTemplateCreate
    \/ QuotationTemplateUpdate
    \/ QuotationTemplateDelete
    \/ QuotationTemplatePreview
    \/ QuotationTemplateGenerate

SpecQuotation == InitQuotation /\ [][NextQuotation]_vars

----------------------------------------------------------------------------
(* SpecConvert: the two generate handlers step by step around the          *)
(* headless-browser conversion, the one call of theirs that can block      *)

\* the quotation templates the generate calls of SpecConvert work on
QuotationCatalog ==
    << QuotationTemplate(QuotationInput(<<"n">>, QuotationMainHtml, <<>>, <<"q">>, TRUE)),
       QuotationTemplate(QuotationInput(<<"n">>, QuotationSpacedHtml, <<"c">>,
                                        <<"q">> \o PdfSuffix, FALSE)) >>

InitConvert ==
    /\ templates = RenderCatalog
    /\ written = {}
    /\ ret = Returned("none", 0, NoResult)
    /\ quotations = QuotationCatalog
    /\ quoteCall = NoQuoteCall
    /\ quoteResponse = NoResponse
    /\ job = NoJob
    /\ browser = 0
    /\ RecurseIdle
    /\ RaceIdle
    /\ ValidateIdle
    /\ FormatIdle
    /\ SubstituteIdle
    /\ RenderIdle
    /\ ExpandIdle

\* a call that returned before it created a browser context
ReturnedEarly(handler, err) == [NoJob EXCEPT !.handler = handler, !.state = "returned", !.err = err]

\* ctx, cancel := chromedp.NewContext(context.Background()); defer cancel();
\* then chromedp.Run(ctx, ...) is entered
Converting(handler, html, fileName) ==
    [NoJob EXCEPT !.handler = handler, !.state = "converting", !.html = html,
                  !.fileName = fileName]

\* DocumentTemplateGenerate up to its call of chromedp.Run; the file name,
\* which the handler computes from the same inputs once the conversion has
\* returned, is kept with the call
DocumentGenerateBegins ==
    /\ job.state \in {"idle", "returned"}
    /\ \E templateType \in RenderTypes, data \in RenderPayloads, companyID \in Companies :
        LET found == documentTemplateFindByType(templates, templateType, companyID)
        IN  IF found = {}
            THEN job' = ReturnedEarly("document", NotFoundForType) /\ UNCHANGED browser
            ELSE \E template \in found :
                 \E run \in ProcessHTMLRuns[template][data][FALSE] :
                     IF run.err # Nil
                     THEN job' = ReturnedEarly("document", run.err) /\ UNCHANGED browser
                     ELSE /\ job' = Converting("document", run.html,
                                       documentTemplateProcessFilename(
                                           template.defaultFileName, data))
                          /\ browser' = browser + 1
    /\ UNCHANGED <<validateVars, storeVars, formatVars, substituteVars, renderVars, expandVars,
                   quotationVars, recurseVars, raceVars>>

\* QuotationTemplateGenerate up to its call of chromedp.Run
QuotationGenerateBegins ==
    /\ job.state \in {"idle", "returned"}
    /\ \E id \in 1..(Len(quotations) + 1), input \in QuotationPreviewInputs :
        IF ~QuotationFound(quotations, id)
        THEN job' = ReturnedEarly("quotation", QuotationNotFound) /\ UNCHANGED browser
        ELSE LET template == quotations[id]
                 err == FirstRequiredVariable(template.variableList, input.variables)
             IN  IF err # Nil
                 THEN job' = ReturnedEarly("quotation", err) /\ UNCHANGED browser
                 ELSE \E html \in QuotationHtml(template, input) :
                         /\ job' = Converting("quotation",
                                       GenerateStyled(template.cssContent, html),
                                       template.defaultFileName)
                         /\ browser' = browser + 1
    /\ UNCHANGED <<validateVars, storeVars, formatVars, substituteVars, renderVars, expandVars,
                   quotationVars, recurseVars, raceVars>>

\* chromedp.Run returns, with the PDF or with an error: the step is the
\* browser's, the context the handlers pass carries no deadline
ConversionCompletes ==
    /\ job.state = "converting"
    /\ \E printed \in BOOLEAN :
          job' = [job EXCEPT !.state = "converted", !.converted = printed]
    /\ UNCHANGED <<browser, validateVars, storeVars, formatVars, substituteVars, renderVars,
                   expandVars, quotationVars, recurseVars, raceVars>>

\* the rest of the handler after chromedp.Run: the error or the PDF and the
\* file name are returned, and the deferred cancel releases the context
GenerateReturns ==
    /\ job.state = "converted"
    /\ job' = IF ~job.converted
              THEN [job EXCEPT !.state = "returned",
                               !.err = SystemError("INTERNAL", "pdf", <<>>, <<>>)]
              ELSE [job EXCEPT !.state = "returned",
                               !.pdf = <<"%PDF">> \o job.html,
                               !.fileName = IF HasSuffix(job.fileName, PdfSuffix)
                                            THEN job.fileName
                                            ELSE job.fileName \o PdfSuffix,
                               !.err = Nil]
    /\ browser' = browser - 1
    /\ UNCHANGED <<validateVars, storeVars, formatVars, substituteVars, renderVars, expandVars,
                   quotationVars, recurseVars, raceVars>>

NextConvert ==
    \/ DocumentGenerateBegins
    \/ QuotationGenerateBegins
    \/ ConversionCompletes
    \/ GenerateReturns

SpecConvert == InitConvert /\ [][NextConvert]_vars

\* the handler's own steps are taken once they can be; nothing makes the
\* browser finish a conversion
SpecConvertFair == SpecConvert /\ WF_vars(GenerateReturns)

----------------------------------------------------------------------------
(* SpecRace: DocumentTemplateCreate and DocumentTemplateUpdate one database *)
(* operation at a time, several calls in progress over one collection      *)

RaceTypes == {<<"t">>, <<"u">>}

RaceRequests ==
    {Request(n, <<"h">>, t, <<"f">>, "nil", ValidFragments) :
        n \in TemplateNames, t \in RaceTypes}
    \cup {Request(<<" ">>, <<"h">>, <<"t">>, <<"f">>, "nil", ValidFragments),
          Request(<<"n">>, <<"h">>, <<"u">>, <<"f">>, "nil", BadEmbeddedFragments)}

\* collections the calls start from: no two templates of a name or of a type
RaceSeeds ==
    LET first == Template(Request(<<"n">>, <<"h">>, <<"t">>, <<"f">>, "nil", ValidFragments), FALSE)
        second == Template(Request(<<"m">>, <<"h">>, <<"u">>, <<"f">>, "nil", ValidFragments), FALSE)
    IN  {<<>>, <<first>>, <<first, second>>}

\* the creates that have not written yet
CreatesInProgress == {c \in 1..MaxCalls : calls[c].op = "create" /\ calls[c].pc # "done"}

RaceCall(op, id, input, pc, err) ==
    [op |-> op, id |-> id, input |-> input, pc |-> pc, err |-> err]

\* a call at its return
RaceDone(call_, id, err) == [call_ EXCEPT !.id = id, !.pc = "done", !.err = err]

InitRace ==
    /\ templates \in RaceSeeds
    /\ written = {}
    /\ ret = Returned("none", 0, NoResult)
    /\ calls = [c \in 1..MaxCalls |-> NoRaceCall]
    /\ ValidateIdle
    /\ FormatIdle
    /\ SubstituteIdle
    /\ RenderIdle
    /\ ExpandIdle
    /\ QuotationIdle
    /\ ConvertIdle
    /\ RecurseIdle

\* DocumentTemplateCreate up to the first query of documentTemplateValidateCreate
CreateCalled(c) ==
    /\ calls[c].pc = "idle"
    /\ Len(templates) + Cardinality(CreatesInProgress) < MaxTemplates
    /\ \E input \in RaceRequests :
        LET err == RequiredFields(input)
        IN  calls' = [calls EXCEPT ![c] =
                IF err # Nil THEN RaceCall("create", 0, input, "done", err)
                ELSE RaceCall("create", 0, input, "name", NoResult)]
    /\ UNCHANGED <<validateVars, storeVars, formatVars, substituteVars, renderVars, expandVars, quotationVars, convertVars, recurseVars>>

\* DocumentTemplateUpdate up to the lookup of documentTemplateValidateUpdate
UpdateCalled(c) ==
    /\ calls[c].pc = "idle"
    /\ \E templateID \in TemplateIds, input \in RaceRequests :
        LET err == RequiredFields(input)
        IN  calls' = [calls EXCEPT ![c] =
                IF err # Nil THEN RaceCall("update", templateID, input, "done", err)
                ELSE RaceCall("update", templateID, input, "find", NoResult)]
    /\ UNCHANGED <<validateVars, storeVars, formatVars, substituteVars, renderVars, expandVars, quotationVars, convertVars, recurseVars>>

\* documentTemplateValidateUpdate: DocumentTemplateGetByID
TemplateLookedUp(c) ==
    /\ calls[c].pc = "find"
    /\ calls' = [calls EXCEPT ![c] =
            IF Found(templates, @.id) THEN [@ EXCEPT !.pc = "name"]
            ELSE RaceDone(@, @.id, SystemError("NOT_FOUND", "template", <<>>, <<>>))]
    /\ UNCHANGED <<validateVars, storeVars, formatVars, substituteVars, renderVars, expandVars, quotationVars, convertVars, recurseVars>>

\* the CountDocuments of documentTemplateValidateNameUniqueness
NameCounted(c) ==
    /\ calls[c].pc = "name"
    /\ LET err == documentTemplateValidateNameUniqueness(
                      templates, calls[c].id, calls[c].input.name, calls[c].input.company)
       IN  calls' = [calls EXCEPT ![c] =
               IF err # Nil THEN RaceDone(@, @.id, err) ELSE [@ EXCEPT !.pc = "type"]]
    /\ UNCHANGED <<validateVars, storeVars, formatVars, substituteVars, renderVars, expandVars, quotationVars, convertVars, recurseVars>>

\* the CountDocuments of documentTemplateValidateTypeUniqueness, then the two
\* fragment validations, which read the request alone
TypeCounted(c) ==
    /\ calls[c].pc = "type"
    /\ \E order \in Orders(DOMAIN calls[c].input.variableHtml) :
        LET err == documentTemplateValidateTypeUniqueness(
                       templates, calls[c].id, calls[c].input.type, calls[c].input.company)
            fragmentErr == FragmentChecks(calls[c].input.variableHtml,
                                          calls[c].input.embeddedHtml, order)
        IN  calls' = [calls EXCEPT ![c] =
                IF err # Nil THEN RaceDone(@, @.id, err)
                ELSE IF fragmentErr # Nil THEN RaceDone(@, @.id, fragmentErr)
                ELSE [@ EXCEPT !.pc = "write"]]
    /\ UNCHANGED <<validateVars, storeVars, formatVars, substituteVars, renderVars, expandVars, quotationVars, convertVars, recurseVars>>

\* collection.InsertOne, then DocumentTemplateGetByID
Inserted(c) ==
    /\ calls[c].pc = "write"
    /\ calls[c].op = "create"
    /\ templates' = Append(templates, Template(calls[c].input, FALSE))
    /\ written' = written \cup {Len(templates) + 1}
    /\ calls' = [calls EXCEPT ![c] = RaceDone(@, Len(templates) + 1, Nil)]
    /\ UNCHANGED <<ret, validateVars, formatVars, substituteVars, renderVars, expandVars, quotationVars, convertVars, recurseVars>>

\* collection.UpdateOne with the filter {_id, isDeleted: false}, then
\* DocumentTemplateGetByID
Updated(c) ==
    /\ calls[c].pc = "write"
    /\ calls[c].op = "update"
    /\ IF Found(templates, calls[c].id)
       THEN /\ templates' = [templates EXCEPT
                                ![calls[c].id] = UpdatedTemplate(@, calls[c].input)]
            /\ written' = written \cup {calls[c].id}
            /\ calls' = [calls EXCEPT ![c] = RaceDone(@, @.id, Nil)]
       ELSE /\ UNCHANGED <<templates, written>>
            /\ calls' = [calls EXCEPT ![c] =
                    RaceDone(@, @.id, SystemError("NOT_FOUND", "template", <<>>, <<>>))]
    /\ UNCHANGED <<ret, validateVars, formatVars, substituteVars, renderVars, expandVars, quotationVars, convertVars, recurseVars>>

NextRace ==
    \E c \in 1..MaxCalls :
        \/ CreateCalled(c)
        \/ UpdateCalled(c)
        \/ TemplateLookedUp(c)
        \/ NameCounted(c)
        \/ TypeCounted(c)
        \/ Inserted(c)
        \/ Updated(c)

SpecRace == InitRace /\ [][NextRace]_vars

----------------------------------------------------------------------------
(* Properties of the validators                                            *)

\* the keys whose own HTML does not yield the key as an extracted placeholder
VariableViolators(variableHtml) ==
    {k \in DOMAIN variableHtml :
        ~InSeq(k, documentTemplateExtractVariables(variableHtml[k]))}

\* C1: a variableHtml map is rejected with VALIDATION naming a key whose
\* extracted placeholders lack that key whenever such a key exists, and
\* passes when every entry's extracted placeholders contain its key.
C1_VariableFragmentValidation ==
    variableResult # NoResult =>
        /\ VariableViolators(fragments) = {} => variableResult = Nil
        /\ VariableViolators(fragments) # {} =>
              /\ variableResult.code = "VALIDATION"
              /\ variableResult.key \in VariableViolators(fragments)

\* a rejected two-entry map in which the other entry is in order
C1_Witness ==
    /\ variableResult.code = "VALIDATION"
    /\ Cardinality(DOMAIN fragments) = 2
    /\ Cardinality(VariableViolators(fragments)) = 1

\* C2: every variable fragment that passes the save-time validation
\* contains the literal {{key}} which the renderer later looks for.
C2_AcceptedFragmentHoldsLiteral ==
    variableResult = Nil =>
        \A k \in DOMAIN fragments : Contains(fragments[k], Placeholder(k))

\* alphabetical order of two strings, stated on positions
LexBefore(s, t) ==
    \E i \in 1..(Len(t)) :
        /\ \A j \in 1..(i - 1) : j <= Len(s) /\ s[j] = t[j]
        /\ \/ i = Len(s) + 1
           \/ i <= Len(s) /\ CharCode(s[i]) < CharCode(t[i])

\* ascending dot-depth, ties alphabetical
ExaminedBefore(k1, k2) ==
    LET d1 == Cardinality({i \in 1..Len(k1) : k1[i] = "."})
        d2 == Cardinality({i \in 1..Len(k2) : k2[i] = "."})
    IN  d1 < d2 \/ (d1 = d2 /\ LexBefore(k1, k2))

\* a dotted key whose parent is missing or lacks the literal {{key}}
ParentRuleBroken(embeddedHtml, k) ==
    /\ \E i \in 1..Len(k) : k[i] = "."
    /\ \/ ParentKey(k) \notin DOMAIN embeddedHtml
       \/ ~Contains(embeddedHtml[ParentKey(k)], Placeholder(k))

\* a fragment holding a placeholder that is neither key nor key.something
PrefixRuleBroken(embeddedHtml, k) ==
    LET vs == documentTemplateExtractVariables(embeddedHtml[k])
    IN  \E i \in 1..Len(vs) : vs[i] # k /\ ~HasPrefix(vs[i], k \o <<".">>)

EmbeddedViolators(embeddedHtml) ==
    {k \in DOMAIN embeddedHtml :
        ParentRuleBroken(embeddedHtml, k) \/ PrefixRuleBroken(embeddedHtml, k)}

C4_EmbeddedPrefixValidation ==
    embeddedResult # NoResult =>
        /\ embeddedResult = Nil =>
              \A k \in DOMAIN fragments :
                 \A v \in {documentTemplateExtractVariables(fragments[k])[i] :
                              i \in 1..Len(documentTemplateExtractVariables(fragments[k]))} :
                    v = k \/ HasPrefix(v, k \o <<".">>)
        /\ (\E k \in DOMAIN fragments : PrefixRuleBroken(fragments, k)) =>
              embeddedResult.code = "VALIDATION"

\* a fragment rejected for a foreign placeholder that follows a proper one
C4_Witness ==
    /\ embeddedResult.rule = "prefix"
    /\ \E k \in DOMAIN fragments :
          /\ embeddedResult.key = k
          /\ Len(documentTemplateExtractVariables(fragments[k])) = 2
          /\ documentTemplateExtractVariables(fragments[k])[1] = k

----------------------------------------------------------------------------
(* Properties of the collection                                            *)

\* both fragment rules hold of a stored template
FragmentsValid(t) ==
    /\ VariableViolators(t.variableHtml) = {}
    /\ EmbeddedViolators(t.embeddedHtml) = {}

WrittenTemplatesValid ==
    \A id \in written : id \in 1..Len(templates) /\ FragmentsValid(templates[id])

\* C5: every stored template that create or update wrote satisfies both
\* fragment validations, and a create or update returning VALIDATION leaves
\* the stored templates unchanged.
C5_SaveIsAllOrNothing ==
    /\ []WrittenTemplatesValid
    /\ [][(ret'.op \in {"create", "update"} /\ ret'.err.code = "VALIDATION")
              => templates' = templates]_vars

\* an update of a written template was refused for its fragments
C5_Witness ==
    /\ ret.op = "update"
    /\ ret.err.code = "VALIDATION"
    /\ ret.err.rule \in {"variableHtml", "parent"}
    /\ \E id \in written : ~templates[id].isDeleted

----------------------------------------------------------------------------
(* Properties of substitution, removal and formatting                      *)

\* s holds two opening braces, some brace-free text, two closing braces
HoldsPlaceholder(s) ==
    \E i \in 1..Len(s) : \E j \in (i + 3)..(Len(s) - 1) :
        /\ s[i] = "{" /\ s[i + 1] = "{"
        /\ s[j] = "}" /\ s[j + 1] = "}"
        /\ \A k \in (i + 2)..(j - 1) : s[k] \notin {"{", "}"}

\* C6: after substitution and the removal of unresolved placeholders the
\* result holds no substring of the form {{...}}.
C6_NoPlaceholderAfterRemoval == removed.done => ~HoldsPlaceholder(removed.s)

\* C7: removing unresolved placeholders is idempotent, also when a removal
\* joins the braces around it into a new placeholder.
C7_RemovalIdempotent == removedAgain.done => removedAgain.s = removed.s

\* substitution as the claim describes it: each {{key}} replaced by formatValue
RECURSIVE SubstituteFormatted(_, _, _)
SubstituteFormatted(order, h, d) ==
    IF order = <<>> THEN h
    ELSE SubstituteFormatted(Tail(order),
             ReplaceAll(h, Placeholder(Head(order)),
                        documentTemplateConvertToString(d[Head(order)])),
             d)

\* C8: substitute replaces each {{key}} of the payload by
\* formatValue(payload[key]), the formatting used for fragment fields.
C8_SubstituteUsesFormatValue ==
    replaced.done =>
        \E order \in Orders(DOMAIN inData) :
            replaced.s = SubstituteFormatted(order, inHtml, inData)

\* the decimal expansion of a float of the model to 10 places
Expansion(f) == f.frac \o Zeros(FloatPrecision - Len(f.frac))

\* C9: formatValue returns a string unchanged, and for a number its
\* expansion to 10 places with trailing zeros removed but never fewer than
\* two decimals: 1 -> "1.00", 1.5 -> "1.50", 1.23456 -> "1.23456", "x" -> "x".
C9_FormatValue ==
    converted.done =>
        /\ inValue.t = "string" => converted.s = inValue.s
        /\ inValue.t = "float" =>
              \E n \in 2..10 :
                 /\ converted.s = (IF inValue.neg THEN <<"-">> ELSE <<>>) \o inValue.int
                                   \o <<".">> \o SubSeq(Expansion(inValue), 1, n)
                 /\ \A i \in (n + 1)..10 : Expansion(inValue)[i] = "0"
                 /\ n > 2 => Expansion(inValue)[n] # "0"
        /\ inValue = Float(FALSE, <<"1">>, <<>>) => converted.s = <<"1", ".", "0", "0">>
        /\ inValue = Float(FALSE, <<"1">>, <<"5">>) => converted.s = <<"1", ".", "5", "0">>
        /\ inValue = Float(FALSE, <<"1">>, <<"2", "3", "4", "5", "6">>) =>
              converted.s = <<"1", ".", "2", "3", "4", "5", "6">>
        /\ inValue = String(<<"x">>) => converted.s = <<"x">>

\* 1.23456 has been formatted
C9_Witness ==
    /\ converted.done
    /\ inValue = Float(FALSE, <<"1">>, <<"2", "3", "4", "5", "6">>)
    /\ converted.s = <<"1", ".", "2", "3", "4", "5", "6">>

----------------------------------------------------------------------------
(* Properties of the render handlers                                       *)

\* the variables the main HTML of a template names
NamedVariables(template) ==
    {documentTemplateExtractVariables(template.html)[i] :
        i \in 1..Len(documentTemplateExtractVariables(template.html))}

\* the variables the template of the last call names and its payload lacks
MissingVariables == NamedVariables(phases.template) \ DOMAIN call.data

\* C10: a render whose payload lacks a variable the template requires ends
\* with a VALIDATION error naming that variable, before any expansion step
\* has run, and returns no HTML (and no PDF).
C10_MissingVariableAborts ==
    (phases.run /\ MissingVariables # {}) =>
        /\ response.err.code = "VALIDATION"
        /\ response.err.variable \in MissingVariables
        /\ response.html = <<>>
        /\ response.pdf = <<>>

----------------------------------------------------------------------------
(* Properties of the fragment expander                                     *)

\* the value the expander looks up for its key
LookedUp == documentTemplateGetValueByPath(expandScope, expandKey)

\* the snippet of the key
Snippet == expandMap[expandKey]

IsScalar(v) == v.t \in {"string", "float", "bool"}

IsArrayOf(v, kinds) ==
    /\ v.t = "array"
    /\ Len(v.items) > 0
    /\ \A i \in 1..Len(v.items) : v.items[i].t \in kinds

SeqToSet(q) == {q[i] : i \in 1..Len(q)}

\* the snippet names only its key and fields of its key that are no fragments
NamesOnlyFields(snippet, key, map) ==
    \A v \in SeqToSet(documentTemplateExtractVariables(snippet)) :
        v = key \/ (Contains(v, <<".">>) /\ ParentKey(v) = key /\ v \notin DOMAIN map)

\* the scalar fields of an element
ScalarFields(fields) == {f \in DOMAIN fields : IsScalar(fields[f]) \/ fields[f].t = "nil"}

\* {{key.field}} replaced by the value of the field, field after field
RECURSIVE SubstituteFields(_, _, _, _)
SubstituteFields(order, snippet, key, fields) ==
    IF order = <<>> THEN snippet
    ELSE SubstituteFields(Tail(order),
            ReplaceAll(snippet, Placeholder(key \o <<".">> \o Head(order)),
                       documentTemplateConvertToString(fields[Head(order)])),
            key, fields)

\* the expansions of the snippet for one element
ElementExpansions(snippet, key, fields) ==
    {SubstituteFields(order, snippet, key, fields) : order \in Orders(ScalarFields(fields))}

\* s is one string of each set of the sequence, in order, nothing between
RECURSIVE SplitsInto(_, _)
SplitsInto(s, sets) ==
    IF sets = <<>> THEN s = <<>>
    ELSE \E h \in Head(sets) :
            /\ HasPrefix(s, h)
            /\ SplitsInto(SubSeq(s, Len(h) + 1, Len(s)), Tail(sets))

\* C11: over a non-empty array of objects the expander returns one expansion
\* of the snippet per element, {{key.field}} replaced by the element's own
\* scalar fields, concatenated in array order with no separator.
C11_ArrayOfObjectsConcatenation ==
    (expanded.done /\ IsArrayOf(LookedUp, {"object"})
                   /\ NamesOnlyFields(Snippet, expandKey, expandMap)) =>
        SplitsInto(expanded.s,
                   [i \in 1..Len(LookedUp.items) |->
                       ElementExpansions(Snippet, expandKey, LookedUp.items[i].fields)])

\* two elements with different fields have been expanded, in their order
C11_Witness ==
    /\ expanded.done
    /\ expandKey = KeyA
    /\ LookedUp = Array(<< Object(<<"x">> :> String(<<"1">>)),
                           Object((<<"x">> :> String(<<"2">>)) @@
                                  (<<"y">> :> Float(FALSE, <<"1">>, <<"5">>))) >>)
    /\ expanded.s = <<"<", "1", "|">> \o Placeholder(KeyAY) \o
                    <<">", "<", "2", "|", "1", ".", "5", "0", ">">>

\* the fragments below key whose placeholder the snippet holds
NestedIn(snippet, key, map) ==
    {k \in DOMAIN map : HasPrefix(k, key \o <<".">>) /\ Contains(snippet, Placeholder(k))}

\* the nested fragment expanded against the element's own field of its name
NestedExpansions(nestedKey, fields, map) ==
    IF LastSegment(nestedKey) \in DOMAIN fields
    THEN documentTemplateProcessEmbeddedHtml(
             nestedKey, map[nestedKey],
             (LastSegment(nestedKey) :> fields[LastSegment(nestedKey)]), map)
    ELSE {<<>>}

\* the expansions of the snippet for one element, nested placeholder first
ElementWithNested(snippet, key, nestedKey, fields, map) ==
    UNION {ElementExpansions(ReplaceAll(snippet, Placeholder(nestedKey), n), key, fields) :
              n \in NestedExpansions(nestedKey, fields, map)}

\* C12: the placeholder of a nested fragment in the parent's snippet is
\* replaced, for each parent element, by the nested fragment expanded against
\* that element's own field named by the last segment of the nested key, and
\* by the empty string when the element lacks the field.
C12_NestedExpandedPerElement ==
    (expanded.done /\ IsArrayOf(LookedUp, {"object"})) =>
        \A nestedKey \in NestedIn(Snippet, expandKey, expandMap) :
            NestedIn(Snippet, expandKey, expandMap) = {nestedKey} =>
                SplitsInto(expanded.s,
                           [i \in 1..Len(LookedUp.items) |->
                               ElementWithNested(Snippet, expandKey, nestedKey,
                                                 LookedUp.items[i].fields, expandMap)])

\* an element with two nested elements and an element without the field
C12_Witness ==
    /\ expanded.done
    /\ expandKey = KeyA
    /\ NestedIn(Snippet, expandKey, expandMap) = {KeyAB}
    /\ LookedUp = Array(<< Object((<<"x">> :> String(<<"1">>)) @@
                                  (KeyB :> Array(<< Object(<<"y">> :> String(<<"p">>)),
                                                    Object(<<"y">> :> String(<<"q">>)) >>))),
                           Object(<<"x">> :> String(<<"1">>)) >>)
    /\ expanded.s = <<"<", "1", "[", "p">> \o Placeholder(KeyAB) \o <<"]", "[", "q">>
                    \o Placeholder(KeyAB) \o <<"]", ">", "<", "1", ">">>

\* C13: a key that is missing from the scope, null or an empty array expands
\* to the empty string, whatever the snippet and the fragment map.
C13_NothingToExpand ==
    (expanded.done /\ (\/ LastSegment(expandKey) \notin DOMAIN expandScope
                       \/ LookedUp.t = "nil"
                       \/ (LookedUp.t = "array" /\ Len(LookedUp.items) = 0))) =>
        expanded.s = <<>>

\* an empty array has been expanded
C13_Witness ==
    /\ expanded.done
    /\ expandScope = (KeyA :> Array(<<>>))
    /\ Snippet # <<>>
    /\ expanded.s = <<>>

\* the plain string form of a scalar
PlainString(v) ==
    CASE v.t = "string" -> v.s
      [] v.t = "bool" -> IF v.b THEN <<"t", "r", "u", "e">> ELSE <<"f", "a", "l", "s", "e">>
      [] v.t = "float" ->
            (IF v.neg THEN <<"-">> ELSE <<>>) \o v.int \o
            (IF TrimZeros(v.frac) = <<>> THEN <<>> ELSE <<".">> \o TrimZeros(v.frac))

\* C19: over a non-empty array of scalars the expander returns one copy of
\* the snippet per element, in array order, {{key}} replaced by the plain
\* string form of the element.
C19_ArrayOfScalars ==
    (expanded.done /\ IsArrayOf(LookedUp, {"string", "float", "bool"})) =>
        SplitsInto(expanded.s,
                   [i \in 1..Len(LookedUp.items) |->
                       {ReplaceAll(Snippet, Placeholder(expandKey),
                                   PlainString(LookedUp.items[i]))}])

\* a string and a number have been expanded, in their order
C19_Witness ==
    /\ expanded.done
    /\ expandKey = KeyA
    /\ LookedUp = Array(<<String(<<"s">>), Float(FALSE, <<"2">>, <<>>)>>)
    /\ expanded.s = <<"<">> \o Placeholder(KeyAX) \o <<"s", ">", "<">>
                    \o Placeholder(KeyAX) \o <<"2", ">">>

\* C20: a scalar value expands to its plain string form; the snippet of the
\* fragment is not in the result.
C20_ScalarValue ==
    (expanded.done /\ IsScalar(LookedUp)) =>
        /\ expanded.s = PlainString(LookedUp)
        /\ ~Contains(expanded.s, Snippet)

\* a number has been expanded
C20_Witness ==
    /\ expanded.done
    /\ LookedUp = Float(FALSE, <<"2">>, <<>>)
    /\ expanded.s = <<"2">>

----------------------------------------------------------------------------
(* Properties of the lookup by type                                        *)

\* the live templates of the type of the last call that belong to its tenant
TenantTemplates ==
    {t \in SeqToSet(templates) :
        t.type = call.type /\ t.company = call.company /\ ~t.isDeleted}

\* the live default templates of the type of the last call
DefaultTemplates ==
    {t \in SeqToSet(templates) : t.type = call.type /\ t.isDefault /\ ~t.isDeleted}

\* C14: the lookup by type returns the live template of the type that belongs
\* to the tenant given, else the live default template of the type, and
\* NOT_FOUND only when there is neither; never a soft-deleted template.
C14_LookupByType ==
    call.op # "none" =>
        /\ phases.run => ~phases.template.isDeleted
        /\ IF call.company # "nil" /\ TenantTemplates # {}
           THEN phases.run /\ phases.template \in TenantTemplates
           ELSE IF DefaultTemplates # {}
           THEN phases.run /\ phases.template \in DefaultTemplates
           ELSE ~phases.run /\ response.err.code = "NOT_FOUND"
        /\ response.err.code = "NOT_FOUND" =>
              (call.company = "nil" \/ TenantTemplates = {}) /\ DefaultTemplates = {}

\* the tenant's template of the type is deleted and the default was used
C14_Witness ==
    /\ call.op = "preview"
    /\ call.company = "c1"
    /\ \E t \in SeqToSet(templates) :
          t.type = call.type /\ t.company = "c1" /\ t.isDeleted
    /\ phases.run
    /\ phases.template.isDefault
    /\ response.err = Nil

----------------------------------------------------------------------------
(* Properties of deletion                                                  *)

\* the step names a record that is deleted
NamesDeleted == ret'.id \in 1..Len(templates) /\ templates[ret'.id].isDeleted

\* no record leaves the collection and isDeleted never goes back to false
NeverRemoved ==
    /\ Len(templates') >= Len(templates)
    /\ \A id \in 1..Len(templates) : templates[id].isDeleted => templates'[id].isDeleted

\* a delete sets isDeleted on a live record, or changes nothing
DeleteSetsFlag ==
    ret'.op = "delete" =>
        IF ret'.err = Nil
        THEN /\ ~templates[ret'.id].isDeleted
             /\ templates' = [templates EXCEPT ![ret'.id].isDeleted = TRUE]
        ELSE templates' = templates

\* a lookup by type never finds a deleted record
FindSkipsDeleted == (ret'.op = "find" /\ ret'.id # 0) => ~templates[ret'.id].isDeleted

\* C15 as stated: records are only soft-deleted, isDeleted never goes back to
\* false, and every get, update, delete or lookup by type of a deleted
\* template reports NOT_FOUND.
C15_DeletedReportsNotFound ==
    [][/\ NeverRemoved
       /\ DeleteSetsFlag
       /\ FindSkipsDeleted
       /\ (ret'.op \in {"get", "update", "delete"} /\ NamesDeleted) =>
              ret'.err.code = "NOT_FOUND"]_vars

\* C15 amended: as above, but an update of a deleted template whose request
\* leaves a required field blank reports VALIDATION for that field; no update
\* of a deleted template changes the collection.
C15_DeletedStaysDeleted ==
    [][/\ NeverRemoved
       /\ DeleteSetsFlag
       /\ FindSkipsDeleted
       /\ (ret'.op \in {"get", "delete"} /\ NamesDeleted) => ret'.err.code = "NOT_FOUND"
       /\ (ret'.op = "update" /\ NamesDeleted) =>
              /\ templates' = templates
              /\ \/ ret'.err.code = "NOT_FOUND"
                 \/ ret'.err.code = "VALIDATION" /\ ret'.err.rule = "required"]_vars

\* a deleted template has been named by an update, which reported NOT_FOUND
C15_Witness ==
    /\ ret.op = "update"
    /\ ret.id \in 1..Len(templates)
    /\ templates[ret.id].isDeleted
    /\ ret.err.code = "NOT_FOUND"

----------------------------------------------------------------------------
(* Properties of the file name                                             *)

\* the substitution of the main HTML applied to a file name: one pass of
\* documentTemplateReplaceVariables, then the removal of what is left
SubstitutedAsHtml(filename, data) ==
    {documentTemplateRemoveUnusedPlaceholders(s) : s \in ReplaceVariablesSet(filename, data)}

WithPdfSuffix(filename) ==
    IF HasSuffix(filename, PdfSuffix) THEN filename ELSE filename \o PdfSuffix

\* C17: the file name DocumentTemplateGenerate returns is defaultFileName
\* after the substitution that the main HTML gets for the same payload (same
\* lookup, same formatting of values), with ".pdf" appended unless it ends in
\* it; it always ends in ".pdf".
C17_FilenameSubstitutedAsHtml ==
    (call.op = "generate" /\ response.err = Nil) =>
        /\ HasSuffix(response.filename, PdfSuffix)
        /\ response.filename \in
              {WithPdfSuffix(f) :
                  f \in SubstitutedAsHtml(phases.template.defaultFileName, call.data)
                        \cup SubstitutedAsHtml(phases.template.defaultFileName,
                                               phases.afterVariable)}

----------------------------------------------------------------------------
(* Properties of the quotation variant                                     *)

\* the last call was a preview or a generate of a template that exists
QuoteRendered ==
    /\ quoteCall.op \in {"preview", "generate"}
    /\ quoteCall.id \in 1..Len(quotations)
    /\ ~quotations[quoteCall.id].isDeleted

\* the entries of the stored variable list that are no key of the request
MissingFromRequest ==
    {v \in SeqToSet(quotations[quoteCall.id].variableList) :
        v \notin DOMAIN quoteCall.input.variables}

\* C16: in the quotation variant, preview and generate return a VALIDATION
\* error naming a missing variable, and neither HTML nor PDF, whenever some
\* entry of the template's stored variable list is no key of the request's
\* variables; when every entry is a key, no VALIDATION error is returned.
C16_DeclaredVariablesRequired ==
    QuoteRendered =>
        IF MissingFromRequest # {}
        THEN /\ quoteResponse.err.code = "VALIDATION"
             /\ quoteResponse.err.variable \in MissingFromRequest
             /\ quoteResponse.html = <<>>
             /\ quoteResponse.pdf = <<>>
        ELSE quoteResponse.err.code # "VALIDATION"

\* a generate whose request holds the first listed variable and not the second
C16_Witness ==
    /\ QuoteRendered
    /\ quoteCall.op = "generate"
    /\ quotations[quoteCall.id].variableList = <<KeyA, KeyTax>>
    /\ DOMAIN quoteCall.input.variables = {KeyA}
    /\ quoteResponse.err = SystemError("VALIDATION", "required", <<>>, KeyTax)
    /\ quoteResponse.pdf = <<>>

----------------------------------------------------------------------------
(* Properties of the PDF conversion                                        *)

\* a browser context is open only while a call is inside the conversion
ContextReleased == job.state \in {"idle", "returned"} => browser = 0

\* C18: the generate handlers bound the headless-browser conversion in time:
\* a call that has entered the conversion eventually returns to its caller,
\* also when the conversion never completes; and no browser context is left
\* open when a call has returned, whatever the return path.
C18_ConversionTimesOut ==
    /\ (job.state = "converting") ~> (job.state = "returned")
    /\ []ContextReleased

----------------------------------------------------------------------------
(* Properties of the per-element substitution                              *)

\* the placeholders {{key.field.inner}} of the snippet that address a field
\* inside a field of the object that is itself an object
InnerPlaceholders(snippet, key, fields) ==
    LET objects == {f \in DOMAIN fields : fields[f].t = "object"}
        inner == UNION {{key \o <<".">> \o f \o <<".">> \o i : i \in DOMAIN fields[f].fields} :
                           f \in objects}
    IN  {Placeholder(v) : v \in inner \cap SeqToSet(documentTemplateExtractVariables(snippet))}

\* C21: the per-element substitution replaces only the scalar fields of the
\* element; a placeholder {{key.obj.inner}} that addresses a field inside a
\* nested object of the element is left untouched, so the expansion of a
\* single object by a fragment map without nested fragments still holds it.
C21_NestedObjectFieldsUntouched ==
    (expanded.done /\ LookedUp.t = "object" /\ DOMAIN expandMap = {expandKey}) =>
        \A p \in InnerPlaceholders(Snippet, expandKey, LookedUp.fields) :
            Contains(expanded.s, p)

----------------------------------------------------------------------------
(* Properties of the recursion into nested fragments                       *)

\* the fragments one dot-segment below key
DirectChildren(key, map) ==
    {k \in DOMAIN map : Contains(k, <<".">>) /\ ParentKey(k) = key}

\* the placeholders of the fragments named dropped from the snippet, in order
RECURSIVE DropPlaceholders(_, _)
DropPlaceholders(order, snippet) ==
    IF order = <<>> THEN snippet
    ELSE DropPlaceholders(Tail(order), ReplaceAll(snippet, Placeholder(Head(order)), <<>>))

\* the element is an object all of whose fields are arrays, none of them the
\* field of a direct child of the key: no direct child has anything to expand
NothingForChildren ==
    /\ LookedUp.t = "object"
    /\ \A f \in DOMAIN LookedUp.fields : LookedUp.fields[f].t = "array"
    /\ \A k \in DirectChildren(expandKey, expandMap) : LastSegment(k) \notin DOMAIN LookedUp.fields

\* C22: while expanding the fragment of a key for one element, exactly the
\* fragments that are direct children of the key and whose placeholder occurs
\* in the snippet are expanded against the element; a deeper descendant is
\* never expanded against it.  For an element that holds nothing for the
\* direct children, the result is therefore the snippet with the placeholders
\* of the direct children removed and every other placeholder kept.
C22_OnlyDirectChildrenExpanded ==
    (expanded.done /\ NothingForChildren) =>
        \E order \in Orders(DirectChildren(expandKey, expandMap)) :
            expanded.s = DropPlaceholders(order, Snippet)

----------------------------------------------------------------------------
(* Properties of the recursion                                             *)

\* the keys of the calls of the expander in progress, outermost first
RECURSIVE EmbeddedKeys(_)
EmbeddedKeys(stk) ==
    IF stk = <<>> THEN <<>>
    ELSE IF Head(stk).fn = "embedded" THEN <<Head(stk).key>> \o EmbeddedKeys(Tail(stk))
    ELSE EmbeddedKeys(Tail(stk))

\* each call in progress was made for a key that extends the key of its caller
KeysGrow ==
    \A i \in 1..(Len(EmbeddedKeys(stack)) - 1) :
        HasPrefix(EmbeddedKeys(stack)[i + 1], EmbeddedKeys(stack)[i] \o <<".">>)

\* the result of the calls is a result of the expander
ResultOfExpander ==
    expanded.done =>
        expanded.s \in documentTemplateProcessEmbeddedHtml(
                           expandKey, expandMap[expandKey], expandScope, expandMap)


\* two fragments of the map name each other in their snippets
ReferenceCycle ==
    \E k1 \in DOMAIN expandMap, k2 \in DOMAIN expandMap :
        /\ k1 # k2
        /\ Contains(expandMap[k1], Placeholder(k2))
        /\ Contains(expandMap[k2], Placeholder(k1))

\* C23 as stated: on a fragment map with a reference cycle, the expansion of
\* a payload that holds the fields the two fragments read never returns.
C23_CycleRecursesForever ==
    (ReferenceCycle /\ LookedUp \in CyclicObjects) => ~expanded.done

\* C23, amended: there is no cycle detection and none is needed; a nested
\* call is made only for a key that extends the key of its caller, against
\* one field of the current element, and every expansion returns, also on
\* fragment maps whose snippets name each other.
C23_ExpansionTerminates ==
    /\ <>(stack = <<>> /\ expanded.done)
    /\ []KeysGrow

\* the expansion of a over a map where a names a.b and a.b names a has returned
C23_Witness ==
    /\ stack = <<>>
    /\ ReferenceCycle
    /\ expandKey = KeyA
    /\ LookedUp \in CyclicObjects
    /\ expanded = Done(<<"<", "[">> \o Placeholder(KeyA) \o <<"p", "]", ">">>)

----------------------------------------------------------------------------
(* Properties of the phases of a render                                    *)

\* the dot-free keys of the embeddedHtml map of the template rendered
TopLevelKeys ==
    {k \in DOMAIN phases.template.embeddedHtml : ~Contains(k, <<".">>)}

\* C24: after the embedded-expansion phase the working payload holds, under
\* every top-level embedded-fragment key, the string the expander produces
\* for that key over the input payload (the empty string when the payload
\* lacks the key), and every other key holds its input value; keys of nested
\* fragments are not written.
C24_EmbeddedPhaseWritesTopLevel ==
    phases.run =>
        /\ DOMAIN phases.afterEmbedded = DOMAIN call.data \cup TopLevelKeys
        /\ \A k \in TopLevelKeys :
              /\ phases.afterEmbedded[k].t = "string"
              /\ phases.afterEmbedded[k].s \in
                    ProcessEmbeddedHtmlSet(k, phases.template.embeddedHtml[k], call.data,
                                           phases.template.embeddedHtml)
              /\ k \notin DOMAIN call.data => phases.afterEmbedded[k].s = <<>>
        /\ \A k \in DOMAIN call.data \ TopLevelKeys :
              phases.afterEmbedded[k] = call.data[k]

\* a render of the template with nested fragments over an array whose first
\* element holds the nested array
C24_Witness ==
    /\ phases.run
    /\ call.type = <<"n">>
    /\ TopLevelKeys = {KeyA}
    /\ KeyAB \in DOMAIN phases.template.embeddedHtml
    /\ KeyA \in DOMAIN call.data
    /\ call.data[KeyA].t = "array"
    /\ phases.afterEmbedded =
          (KeyA :> String(<<"<", "1", "[", "p">> \o Placeholder(KeyAB) \o <<"]", "[", "q">>
                           \o Placeholder(KeyAB) \o <<"]", ">", "<", "2", ".", "0", "0", ">">>))


\* the payloads that hold under each key its value before or its value after
\* the variable-fragment phase
WorkingPayloads ==
    {w \in [DOMAIN phases.afterVariable ->
               {phases.afterEmbedded[k] : k \in DOMAIN phases.afterEmbedded}
               \cup {phases.afterVariable[k] : k \in DOMAIN phases.afterVariable}] :
        \A k \in DOMAIN w : w[k] \in {phases.afterEmbedded[k], phases.afterVariable[k]}}

\* the variable fragment of key applies: the snippet holds the literal
\* placeholder and the working payload a value that is not null
FragmentApplies(key) ==
    /\ key \in DOMAIN phases.afterEmbedded
    /\ phases.afterEmbedded[key].t # "nil"
    /\ Contains(phases.template.variableHtml[key], Placeholder(key))

\* C25: in the variable-fragment phase, a key whose snippet holds the literal
\* {{key}} and whose value in the working payload is not null gets the
\* snippet with {{key}} replaced by the value, after one substitute pass
\* against the working payload; any other key keeps its value.
C25_VariablePhase ==
    phases.run =>
        /\ DOMAIN phases.afterVariable = DOMAIN phases.afterEmbedded
        /\ \A key \in DOMAIN phases.afterVariable :
              IF key \in DOMAIN phases.template.variableHtml /\ FragmentApplies(key)
              THEN /\ phases.afterVariable[key].t = "string"
                   /\ \E w \in WorkingPayloads : \E order \in Orders(DOMAIN w) :
                         phases.afterVariable[key].s =
                            ReplaceVariablesIn(order,
                                ReplaceAll(phases.template.variableHtml[key], Placeholder(key),
                                    documentTemplateConvertToString(phases.afterEmbedded[key])),
                                w)
              ELSE phases.afterVariable[key] = phases.afterEmbedded[key]

\* both fragments of the template applied, b before c
C25_Witness ==
    /\ phases.run
    /\ call.type = <<"v">>
    /\ phases.afterEmbedded = (KeyC :> String(<<"C">>)) @@ (KeyB :> String(<<"B">>))
    /\ phases.afterVariable = (KeyC :> String(<<"(", "C", "[", "B", "]", ")">>)) @@
                              (KeyB :> String(<<"[", "B", "]">>))


\* the variable-fragment keys that the embedded phase produced, and the rest
FirstGroup == DOMAIN phases.template.variableHtml \cap TopLevelKeys

SecondGroup == DOMAIN phases.template.variableHtml \ TopLevelKeys

\* the value of key after the variable phase is its fragment applied over the
\* working payload w
AppliedOver(key, w) ==
    \E order \in Orders(DOMAIN w) :
        phases.afterVariable[key] =
            String(ReplaceVariablesIn(order,
                ReplaceAll(phases.template.variableHtml[key], Placeholder(key),
                           documentTemplateConvertToString(phases.afterEmbedded[key])),
                w))

\* the body a render returns: the main HTML after one substitute pass over
\* the payload the variable phase left, then one removal of placeholders
Bodies ==
    {documentTemplateRemoveUnusedPlaceholders(
         ReplaceVariablesIn(order, phases.template.html, phases.afterVariable)) :
        order \in Orders(DOMAIN phases.afterVariable)}

\* C26: a render runs its phases in one order: the embedded fragments; the
\* variable fragments of keys the embedded phase produced, which see the keys
\* of the other variable fragments as that phase left them; the other
\* variable fragments, which see the first group finished; one substitute
\* pass over the main HTML; one removal of placeholders, the last change of
\* the body; and only then, for a preview, the page around it.
C26_PhaseOrder ==
    (phases.run /\ response.err = Nil) =>
        /\ \A key \in FirstGroup :
              FragmentApplies(key) =>
                 \E w \in WorkingPayloads :
                    /\ \A k \in SecondGroup \cap DOMAIN w : w[k] = phases.afterEmbedded[k]
                    /\ AppliedOver(key, w)
        /\ \A key \in SecondGroup :
              FragmentApplies(key) =>
                 \E w \in WorkingPayloads :
                    /\ \A k \in FirstGroup \cap DOMAIN w : w[k] = phases.afterVariable[k]
                    /\ AppliedOver(key, w)
        /\ call.op = "preview" =>
              response.html \in {PreviewHead \o body \o PreviewTail : body \in Bodies}
        /\ call.op = "generate" =>
              response.pdf \in {documentTemplateHTMLToPDF(body) : body \in Bodies}

\* a preview in which the fragment of the embedded key a saw c as the payload
\* gave it and the fragment of c saw a finished
C26_Witness ==
    /\ phases.run
    /\ call.op = "preview"
    /\ call.type = <<"o">>
    /\ phases.afterEmbedded = (KeyA :> String(<<"<", "1", ">">>)) @@ (KeyC :> String(<<"C">>))
    /\ phases.afterVariable =
          (KeyA :> String(<<"(", "<", "1", ">", "C", ")">>)) @@
          (KeyC :> String(<<"[", "C", "(", "<", "1", ">", "C", ")", "]">>))
    /\ response.html =
          PreviewHead \o <<"(", "<", "1", ">", "C", ")", "|",
                           "[", "C", "(", "<", "1", ">", "C", ")", "]">> \o PreviewTail

\* a generate whose payload value leaves a placeholder once the removal has
\* run: the removal ran once
C26_RemovedOnce ==
    /\ phases.run
    /\ call.op = "generate"
    /\ call.type = <<"s">>
    /\ response.pdf = <<"%PDF", "<">> \o Placeholder(KeyB) \o <<"|", ">">>


\* the value the payload of the call holds under key, null when it has none
InputValue(key) ==
    IF key \in DOMAIN call.data THEN call.data[key] ELSE NilValue

\* C27: a render of a template that was found never fails in its expansion,
\* substitution or stripping, whatever the shape of the payload: a preview
\* answers with the wrapped document and no error, a generation fails only
\* in the conversion to PDF; under a top-level embedded-fragment key a null,
\* a missing value and an empty array give the empty string and a scalar
\* gives its plain string form.
C27_RenderTotal ==
    phases.run =>
        /\ call.op = "preview" =>
              /\ response.err = Nil
              /\ HasPrefix(response.html, PreviewHead)
              /\ HasSuffix(response.html, PreviewTail)
        /\ call.op = "generate" =>
              response.err \in {Nil, SystemError("INTERNAL", "pdf", <<>>, <<>>)}
        /\ \A k \in TopLevelKeys :
              LET value == InputValue(k)
              IN  /\ phases.afterEmbedded[k].t = "string"
                  /\ value.t = "nil" => phases.afterEmbedded[k].s = <<>>
                  /\ (value.t = "array" /\ value.items = <<>>) =>
                        phases.afterEmbedded[k].s = <<>>
                  /\ value.t \in {"string", "float", "bool"} =>
                        phases.afterEmbedded[k].s = PlainString(value)

\* a preview of the template with one embedded fragment over an array that
\* mixes an object and a scalar: the scalar is passed over
C27_Witness ==
    /\ phases.run
    /\ call.op = "preview"
    /\ call.type = <<"e">>
    /\ call.data = (KeyA :> Array(<< Object(<<"x">> :> String(<<"1">>)), String(<<"s">>) >>))
    /\ response.err = Nil
    /\ phases.afterEmbedded[KeyA].t = "string"
    /\ ~Contains(phases.afterEmbedded[KeyA].s, <<"s">>)


C29_RenderDeterministic ==
    (phases.run /\ call.op = "preview" /\ response.err = Nil) =>
        \A run \in ProcessHTMLRuns[phases.template][call.data][TRUE] :
            run.html = response.html

----------------------------------------------------------------------------
(* Properties of concurrent saves                                          *)

\* C30: whatever the interleaving of the creates and updates in progress,
\* no two templates of the collection that are not deleted and have the
\* same company have the same name, and no two have the same type.
C30_UniqueUnderConcurrency ==
    \A i, j \in 1..Len(templates) :
        (/\ i # j
         /\ ~templates[i].isDeleted
         /\ ~templates[j].isDeleted
         /\ templates[i].company = templates[j].company) =>
            /\ templates[i].name # templates[j].name
            /\ templates[i].type # templates[j].type

====
